---- MODULE Spec2Model ----
(***************************************************************************)
(* Event-driven paper-trading ledger: the webhook engines of app_v7.py,    *)
(* app.py and app-v4.py, each modelled as a state machine over its SQLite  *)
(* tables.                                                                 *)
(*                                                                         *)
(* Numbers.  The REAL columns are modelled in fixed point: money in paise  *)
(* (1/100 rupee) and quantities in 1/100 unit for app_v7.py and app-v4.py, *)
(* money in whole rupees for app.py.  Prices are whole rupees.             *)
(***************************************************************************)
EXTENDS Integers, Sequences, FiniteSets, TLC

\* ------------------------------------------------------------------------
\* Bounds of the model
\* ------------------------------------------------------------------------
\* app_v7.py: rows the wallet_ledger table may hold before no further
\* request is admitted.
MaxLedger7 == 4
\* app_v7.py: rows the events table may hold.
MaxEvents7 == 1
\* app.py: requests the application receives.
MaxCallsA == 3
\* app-v4.py: rows the ledger and the events tables may hold before no
\* further webhook is admitted.
MaxLedger4 == 4
MaxEvents4 == 3
\* app-v4.py: the same for the runs that follow one tag further.
DeepLedger4 == 5
DeepEvents4 == 4
\* app-v2.py, app-old.py: rows trade_events may hold before no further
\* request is admitted.
MaxEvents2 == 3

\* ------------------------------------------------------------------------
\* Shared helpers
\* ------------------------------------------------------------------------
Tags == {"T1", "T2"}
\* A NULL / missing tag.
NoTag == "-"
\* What stands for a missing side and a missing symbol in a payload.
NoSide == "-"
NoSymbol == "-"

\* n / d rounded to the nearest integer, ties to even (Python's round), d > 0.
RoundDiv(n, d) ==
    LET q == n \div d
        r == n % d
    IN  IF 2 * r < d THEN q
        ELSE IF 2 * r > d THEN q + 1
        ELSE IF q % 2 = 0 THEN q ELSE q + 1

\* The last row of a table kept as a sequence.
Last(s) == s[Len(s)]

\* ========================================================================
\* app_v7.py
\* ========================================================================
\* Request handlers run concurrently; p is one in-flight request slot.
Procs7 == {1, 2}
\* The slot of a client that sends one request at a time.
Seq7 == {1}

\* INSERT ... VALUES (1, 1000000.0, 'INR', ?), in paise.
INITIAL_DEPOSIT7 == 1000000 * 100

VARIABLES
    db7,      \* the committed database: wallet, wallet_ledger, trades, events
    lock7,    \* holder of _db_lock (0: free)
    tx7,      \* the open transaction of the lock holder: working copy, exception
    proc7,    \* per request slot: pc, payload, and what the request met on arrival
    last7     \* the request completed last and its response, until the next arrives

vars7 == <<db7, lock7, tx7, proc7, last7>>

\* --- payloads -----------------------------------------------------------
EntryPrices7 == {100}
ExitPrices7 == {100, 120}
Sides == {"BUY", "SELL"}
ExitEvents7 == {"TARGET1", "TARGET2", "STOPLOSS"}

\* A webhook payload; price 0 stands for a missing / zero price, NoTag for a
\* missing tag, NoSide for a missing side, NoSymbol for a missing symbol.
Webhook7(secret, event, tag, price, side) ==
    [op |-> "webhook", secret |-> secret, event |-> event, tag |-> tag,
     price |-> price, side |-> side, symbol |-> "NIFTY", amount |-> 0]

Payloads7 ==
    {Webhook7(TRUE, "ENTRY", t, p, s) : t \in Tags, p \in EntryPrices7, s \in Sides}
    \cup {Webhook7(TRUE, e, t, p, s) :
              e \in ExitEvents7, t \in Tags, p \in ExitPrices7, s \in Sides}
    \cup {Webhook7(TRUE, "PING", "T1", 100, "BUY")}
    \cup {Webhook7(FALSE, "ENTRY", "T1", 100, "BUY")}
    \cup {Webhook7(TRUE, "ENTRY", "T1", 0, "BUY")}
    \cup {Webhook7(TRUE, "TARGET1", NoTag, 100, "BUY")}
    \cup {Webhook7(TRUE, "ENTRY", NoTag, 100, "BUY"),
          Webhook7(TRUE, "ENTRY", "T1", 100, NoSide),
          [Webhook7(TRUE, "ENTRY", "T1", 100, "BUY") EXCEPT !.symbol = NoSymbol],
          Webhook7(TRUE, "TARGET1", "T1", 0, "BUY"),
          Webhook7(TRUE, "TARGET1", "T1", 120, NoSide)}
    \cup {[op |-> "add_funds", secret |-> TRUE, event |-> "-", tag |-> NoTag,
           price |-> 0, side |-> "-", symbol |-> "-", amount |-> a] : a \in {0, 50000 * 100}}
    \cup {[op |-> "clear_trades", secret |-> TRUE, event |-> "-", tag |-> NoTag,
           price |-> 0, side |-> "-", symbol |-> "-", amount |-> 0]}
    \cup {[op |-> "health", secret |-> TRUE, event |-> "-", tag |-> NoTag,
           price |-> 0, side |-> "-", symbol |-> "-", amount |-> 0]}

\* The payloads of the concurrent runs.
PayloadsC7 ==
    {Webhook7(TRUE, "ENTRY", t, 100, "BUY") : t \in Tags}
    \cup {Webhook7(TRUE, "TARGET1", "T1", 120, "BUY")}
    \cup {[op |-> "add_funds", secret |-> TRUE, event |-> "-", tag |-> NoTag,
           price |-> 0, side |-> "-", symbol |-> "-", amount |-> 50000 * 100]}

\* The payloads of the concurrent runs in which every mutating operation and
\* a refused webhook compete for the lock.
PayloadsW7 ==
    {Webhook7(TRUE, "ENTRY", "T1", 100, "BUY"),
     Webhook7(TRUE, "TARGET1", "T1", 120, "BUY"),
     Webhook7(FALSE, "ENTRY", "T1", 100, "BUY")}
    \cup {[op |-> "add_funds", secret |-> TRUE, event |-> "-", tag |-> NoTag,
           price |-> 0, side |-> "-", symbol |-> "-", amount |-> 50000 * 100]}
    \cup {[op |-> "clear_trades", secret |-> TRUE, event |-> "-", tag |-> NoTag,
           price |-> 0, side |-> "-", symbol |-> "-", amount |-> 0]}

\* The payloads of the runs that vary the price of an ENTRY, up to prices
\* of which the allocation buys less than 0.01 unit.
PricesE == {3, 100, 7000000, 10000000, 70000000}
PayloadsE7 ==
    {Webhook7(TRUE, "ENTRY", t, p, "BUY") : t \in Tags, p \in PricesE}
    \cup {[op |-> "add_funds", secret |-> TRUE, event |-> "-", tag |-> NoTag,
           price |-> 0, side |-> "-", symbol |-> "-", amount |-> 1]}
    \cup {[op |-> "clear_trades", secret |-> TRUE, event |-> "-", tag |-> NoTag,
           price |-> 0, side |-> "-", symbol |-> "-", amount |-> 0]}

NoPayload7 ==
    [op |-> "-", secret |-> TRUE, event |-> "-", tag |-> NoTag,
     price |-> 0, side |-> "-", symbol |-> "-", amount |-> 0]

\* --- tables -------------------------------------------------------------
Balance7(db) == IF db.wallet = <<>> THEN 0 ELSE db.wallet[1]

LedgerRow7(type, tag, side, qty, price, amount, balance_after) ==
    [type |-> type, tag |-> tag, side |-> side, qty |-> qty, price |-> price,
     amount |-> amount, balance_after |-> balance_after]

\* A trades table without the constraint.
UniqueViolation7_none(trades, tag, event) == FALSE

\* UNIQUE(tag, event) of the trades table.
UniqueViolation7(trades, tag, event) ==
    \E i \in 1..Len(trades) : trades[i].tag = tag /\ trades[i].event = event

\* A fetch_wallet that answers the seed instead of the stored balance.
fetch_wallet_stale(db) == [db |-> db, balance |-> INITIAL_DEPOSIT7]

\* fetch_wallet: the wallet row, created with its INITIAL_DEPOSIT ledger entry
\* when absent.
fetch_wallet(db) ==
    IF db.wallet # <<>>
    THEN [db |-> db, balance |-> db.wallet[1]]
    ELSE [db |-> [db EXCEPT
                    !.wallet = <<INITIAL_DEPOSIT7>>,
                    !.ledger = Append(@, LedgerRow7("INITIAL_DEPOSIT", NoTag, "-", 0, 0,
                                                    INITIAL_DEPOSIT7, INITIAL_DEPOSIT7))],
          balance |-> INITIAL_DEPOSIT7]

\* An allocation of 150% of the balance.
EntryQty7_overdraw(balance, price) ==
    IF price > 0 THEN RoundDiv(balance * 3, 2 * price) ELSE 0

\* get_symbol_precision for the instruments of the model (NSE symbols): 2
\* decimal places, the quantity unit of the model.
\* qty = round(round(balance * 0.15, 8) / price, 2), in 1/100 unit: with the
\* balance in paise and the price in rupees the inner rounding is exact, and
\* balance * 0.15 / price is (balance * 3) / (20 * price).
EntryQty7(balance, price) ==
    IF price > 0 THEN RoundDiv(balance * 3, 20 * price) ELSE 0

\* spent = round(qty * price, 8), in paise.
EntrySpent7(qty, price) == qty * price

\* pnl = round((price - entry_price) * qty, 8) for BUY, the reverse otherwise.
ExitPnl7(side, price, entry_price, qty) ==
    IF side = "BUY" THEN (price - entry_price) * qty
    ELSE (entry_price - price) * qty

\* The outcome of a transaction body: the working copy and the exception
\* that ended it ("-": none).
Outcome7(db, exc) == [db |-> db, exc |-> exc]

\* A body is a list of statements; an injected storage fault at statement f
\* (0: none) stops it there with an OperationalError.
Reached7(f, i) == f = 0 \/ i < f

\* An ENTRY handler that asks only for a price and a tag.
handle_entry_event_unchecked(db0, pl, f) ==
    IF pl.price = 0 \/ pl.tag = NoTag
    THEN Outcome7(db0, "ValueError")
    ELSE
      LET fw == fetch_wallet(db0)
          balance == fw.balance
          qty == EntryQty7(balance, pl.price)
          spent == EntrySpent7(qty, pl.price)
          new_balance == balance - spent
          db1 == [fw.db EXCEPT !.ledger =
                     Append(@, LedgerRow7("ENTRY", pl.tag, pl.side, qty, pl.price,
                                          -spent, new_balance))]
          db2 == [db1 EXCEPT !.wallet = <<new_balance>>]
          db3 == [db2 EXCEPT !.trades =
                     Append(@, [event |-> "ENTRY", tag |-> pl.tag, side |-> pl.side,
                                price |-> pl.price, qty |-> qty, spent |-> spent,
                                status |-> "OPEN", entry_price |-> pl.price,
                                exit_price |-> 0, realized_pnl |-> 0])]
      IN  IF ~Reached7(f, 1) THEN Outcome7(fw.db, "OperationalError")
          ELSE IF ~Reached7(f, 2) THEN Outcome7(db1, "OperationalError")
          ELSE IF ~Reached7(f, 3) THEN Outcome7(db2, "OperationalError")
          ELSE IF UniqueViolation7(db2.trades, pl.tag, "ENTRY")
               THEN Outcome7(db2, "IntegrityError")
          ELSE Outcome7(db3, "-")

\* handle_entry_event
handle_entry_event(db0, pl, f) ==
    IF pl.price = 0 \/ pl.side = NoSide \/ pl.symbol = NoSymbol \/ pl.tag = NoTag
    THEN Outcome7(db0, "ValueError")
    ELSE
      LET fw == fetch_wallet(db0)
          balance == fw.balance
          qty == EntryQty7(balance, pl.price)
          spent == EntrySpent7(qty, pl.price)
          new_balance == balance - spent
          db1 == [fw.db EXCEPT !.ledger =
                     Append(@, LedgerRow7("ENTRY", pl.tag, pl.side, qty, pl.price,
                                          -spent, new_balance))]
          db2 == [db1 EXCEPT !.wallet = <<new_balance>>]
          db3 == [db2 EXCEPT !.trades =
                     Append(@, [event |-> "ENTRY", tag |-> pl.tag, side |-> pl.side,
                                price |-> pl.price, qty |-> qty, spent |-> spent,
                                status |-> "OPEN", entry_price |-> pl.price,
                                exit_price |-> 0, realized_pnl |-> 0])]
      IN  IF ~Reached7(f, 1) THEN Outcome7(fw.db, "OperationalError")
          ELSE IF ~Reached7(f, 2) THEN Outcome7(db1, "OperationalError")
          ELSE IF ~Reached7(f, 3) THEN Outcome7(db2, "OperationalError")
          ELSE IF UniqueViolation7(db2.trades, pl.tag, "ENTRY")
               THEN Outcome7(db2, "IntegrityError")
          ELSE Outcome7(db3, "-")

\* A lookup that takes the newest open ENTRY trade of any tag.
OpenEntry7_any_tag(trades, tag) ==
    LET hits == {i \in 1..Len(trades) :
                    trades[i].event = "ENTRY" /\ trades[i].status = "OPEN"}
    IN  IF hits = {} THEN 0 ELSE CHOOSE i \in hits : \A j \in hits : j <= i

\* A lookup of the tag's ENTRY row whatever its status.
OpenEntry7_any_status(trades, tag) ==
    LET hits == {i \in 1..Len(trades) :
                    trades[i].tag = tag /\ trades[i].event = "ENTRY"}
    IN  IF hits = {} THEN 0 ELSE CHOOSE i \in hits : \A j \in hits : j <= i

\* The index of the open ENTRY trade of a tag (0: none):
\* SELECT ... WHERE tag=? AND event='ENTRY' AND status='OPEN' ... LIMIT 1.
OpenEntry7(trades, tag) ==
    LET hits == {i \in 1..Len(trades) :
                    /\ trades[i].tag = tag
                    /\ trades[i].event = "ENTRY"
                    /\ trades[i].status = "OPEN"}
    IN  IF hits = {} THEN 0 ELSE CHOOSE i \in hits : \A j \in hits : j <= i

\* handle_exit_event
handle_exit_event(db0, pl, f) ==
    IF pl.tag = NoTag \/ pl.price = 0 \/ pl.side = NoSide
    THEN Outcome7(db0, "ValueError")
    ELSE IF OpenEntry7(db0.trades, pl.tag) = 0
    THEN Outcome7(db0, "ValueError")
    ELSE
      LET trade_id == OpenEntry7(db0.trades, pl.tag)
          qty == db0.trades[trade_id].qty
          entry_price == db0.trades[trade_id].entry_price
          spent == db0.trades[trade_id].spent
          pnl == ExitPnl7(pl.side, pl.price, entry_price, qty)
          credit == spent + pnl
          fw == fetch_wallet(db0)
          new_balance == fw.balance + credit
          db1 == [fw.db EXCEPT !.ledger =
                     Append(@, LedgerRow7(pl.event, pl.tag, pl.side, qty, pl.price,
                                          credit, new_balance))]
          db2 == [db1 EXCEPT !.wallet = <<new_balance>>]
          db3 == [db2 EXCEPT !.trades[trade_id] =
                     [@ EXCEPT !.status = "CLOSED", !.exit_price = pl.price,
                               !.realized_pnl = pnl]]
          db4 == [db3 EXCEPT !.trades =
                     Append(@, [event |-> pl.event, tag |-> pl.tag, side |-> pl.side,
                                price |-> pl.price, qty |-> qty, spent |-> 0,
                                status |-> "CLOSED", entry_price |-> 0,
                                exit_price |-> 0, realized_pnl |-> pnl])]
      IN  IF ~Reached7(f, 1) THEN Outcome7(fw.db, "OperationalError")
          ELSE IF ~Reached7(f, 2) THEN Outcome7(db1, "OperationalError")
          ELSE IF ~Reached7(f, 3) THEN Outcome7(db2, "OperationalError")
          ELSE IF ~Reached7(f, 4) THEN Outcome7(db3, "OperationalError")
          ELSE IF UniqueViolation7(db3.trades, pl.tag, pl.event)
               THEN Outcome7(db3, "IntegrityError")
          ELSE Outcome7(db4, "-")

\* A process_webhook that drops the events it does not know.
process_webhook_unjournaled(db0, pl, f) ==
    IF pl.event = "ENTRY" THEN handle_entry_event(db0, pl, f)
    ELSE IF pl.event \in {"TARGET1", "STOPLOSS", "TARGET2", "TARGET3"}
    THEN handle_exit_event(db0, pl, f)
    ELSE IF ~Reached7(f, 1) THEN Outcome7(db0, "OperationalError")
    ELSE Outcome7(db0, "-")

\* process_webhook, the body of its db_transaction block.
process_webhook(db0, pl, f) ==
    IF pl.event = "ENTRY" THEN handle_entry_event(db0, pl, f)
    ELSE IF pl.event \in {"TARGET1", "STOPLOSS", "TARGET2", "TARGET3"}
    THEN handle_exit_event(db0, pl, f)
    ELSE IF ~Reached7(f, 1) THEN Outcome7(db0, "OperationalError")
    ELSE Outcome7([db0 EXCEPT !.events = @ + 1], "-")

\* A clear_trades that also puts the wallet back to the initial deposit.
clear_trades_body_reseeds(db0, f) ==
    LET fw == fetch_wallet(db0)
        db1 == [fw.db EXCEPT !.trades = <<>>, !.wallet = <<INITIAL_DEPOSIT7>>]
        db2 == [db1 EXCEPT !.ledger =
                   Append(@, LedgerRow7("CLEAR_TRADES", NoTag, "-", 0, 0, 0,
                                        INITIAL_DEPOSIT7))]
    IN  IF ~Reached7(f, 1) THEN Outcome7(fw.db, "OperationalError")
        ELSE IF ~Reached7(f, 2) THEN Outcome7(db1, "OperationalError")
        ELSE Outcome7(db2, "-")

\* clear_trades, the body of its db_transaction block.
clear_trades_body(db0, f) ==
    LET fw == fetch_wallet(db0)
        db1 == [fw.db EXCEPT !.trades = <<>>]
        db2 == [db1 EXCEPT !.ledger =
                   Append(@, LedgerRow7("CLEAR_TRADES", NoTag, "-", 0, 0, 0, fw.balance))]
    IN  IF ~Reached7(f, 1) THEN Outcome7(fw.db, "OperationalError")
        ELSE IF ~Reached7(f, 2) THEN Outcome7(db1, "OperationalError")
        ELSE Outcome7(db2, "-")

\* An add_funds that moves the balance by twice the amount it records.
add_funds_body_twice(db0, pl, f) ==
    LET fw == fetch_wallet(db0)
        balance_after == fw.balance + 2 * pl.amount
        db1 == [fw.db EXCEPT !.wallet = <<balance_after>>]
        db2 == [db1 EXCEPT !.ledger =
                   Append(@, LedgerRow7("MANUAL_DEPOSIT", NoTag, "-", 0, 0,
                                        pl.amount, balance_after))]
    IN  IF ~Reached7(f, 1) THEN Outcome7(fw.db, "OperationalError")
        ELSE IF ~Reached7(f, 2) THEN Outcome7(db1, "OperationalError")
        ELSE Outcome7(db2, "-")

\* add_funds, the body of its db_transaction block.
add_funds_body(db0, pl, f) ==
    LET fw == fetch_wallet(db0)
        balance_after == fw.balance + pl.amount
        db1 == [fw.db EXCEPT !.wallet = <<balance_after>>]
        db2 == [db1 EXCEPT !.ledger =
                   Append(@, LedgerRow7("MANUAL_DEPOSIT", NoTag, "-", 0, 0,
                                        pl.amount, balance_after))]
    IN  IF ~Reached7(f, 1) THEN Outcome7(fw.db, "OperationalError")
        ELSE IF ~Reached7(f, 2) THEN Outcome7(db1, "OperationalError")
        ELSE Outcome7(db2, "-")

\* The number of statements of a request's body at which a fault can strike.
Statements7(pl) ==
    IF pl.op = "webhook"
    THEN (IF pl.event = "ENTRY" THEN 3
          ELSE IF pl.event \in {"TARGET1", "STOPLOSS", "TARGET2", "TARGET3"} THEN 4
          ELSE 1)
    ELSE IF pl.op = "health" THEN 0 ELSE 2

\* The body of the db_transaction block of each route.
Body7(db0, pl, f) ==
    IF pl.op = "webhook" THEN process_webhook(db0, pl, f)
    ELSE IF pl.op = "clear_trades" THEN clear_trades_body(db0, f)
    ELSE IF pl.op = "add_funds" THEN add_funds_body(db0, pl, f)
    ELSE Outcome7(fetch_wallet(db0).db, "-")

\* A db_transaction that commits whatever its body did.
EndTransaction7_commits(committed, tx) == tx.db

\* db_transaction's exit: commit when the body raised nothing, rollback
\* otherwise.
EndTransaction7(committed, tx) == IF tx.exc = "-" THEN tx.db ELSE committed

\* The response of each route to the exception that left its body.
Response7(pl, exc) ==
    IF exc = "-" THEN "ok"
    ELSE IF pl.op = "webhook" /\ exc = "ValueError" THEN "error400"
    ELSE IF pl.op = "webhook" /\ exc = "IntegrityError" THEN "duplicate"
    ELSE "error500"

\* What a route rejects before it opens a transaction ("-": nothing).
PreCheck7(pl) ==
    IF pl.op = "webhook" /\ ~pl.secret THEN "error400"
    ELSE IF pl.op = "add_funds" /\ pl.amount <= 0 THEN "error400"
    ELSE "-"

\* --- state machine ------------------------------------------------------
NoTx7 == [db |-> [wallet |-> <<>>, ledger |-> <<>>, trades |-> <<>>, events |-> 0],
          exc |-> "-"]

\* What identifies a delivery: a redelivery repeats the whole request.
Key7(pl) == pl

NoLast7 == [key |-> Key7(NoPayload7), resp |-> "-", arrived |-> 0]

IdleProc7 ==
    [pc |-> "idle", req |-> NoPayload7, fresh |-> FALSE, repeat |-> FALSE,
     arrived |-> 0]

\* The database after migrate_db_v7.main(): empty tables and the seeded wallet.
Init7 ==
    /\ db7 = [wallet |-> <<INITIAL_DEPOSIT7>>,
              ledger |-> <<LedgerRow7("INITIAL_DEPOSIT", NoTag, "-", 0, 0,
                                      INITIAL_DEPOSIT7, INITIAL_DEPOSIT7)>>,
              trades |-> <<>>,
              events |-> 0]
    /\ lock7 = 0
    /\ tx7 = NoTx7
    /\ proc7 = [p \in Procs7 |-> IdleProc7]
    /\ last7 = NoLast7

\* A request arrives at slot p.  `fresh` records that the committed trades
\* table held no (tag, event) row at that moment, `repeat` that the request
\* completed just before was this same request and was applied, and
\* `arrived` the number of ledger rows committed by then.
Receive7(p, pl) ==
    /\ proc7[p].pc = "idle"
    /\ Len(db7.ledger) < MaxLedger7
    /\ db7.events < MaxEvents7 \/ pl.event # "PING"
    /\ proc7' = [proc7 EXCEPT ![p] =
                   [pc |-> "called", req |-> pl,
                    fresh |-> ~UniqueViolation7(db7.trades, pl.tag, pl.event),
                    repeat |-> last7.key = Key7(pl) /\ last7.resp = "ok",
                    arrived |-> Len(db7.ledger)]]
    /\ last7' = NoLast7
    /\ UNCHANGED <<db7, lock7, tx7>>

\* The route rejects the request before any transaction.
Reject7(p) ==
    /\ proc7[p].pc = "called"
    /\ PreCheck7(proc7[p].req) # "-"
    /\ proc7' = [proc7 EXCEPT ![p] = IdleProc7]
    /\ last7' = [key |-> Key7(proc7[p].req), resp |-> PreCheck7(proc7[p].req),
                 arrived |-> proc7[p].arrived]
    /\ UNCHANGED <<db7, lock7, tx7>>

\* A db_transaction that waits for nobody.
LockFree7_ignored == TRUE

\* _db_lock is free.
LockFree7 == lock7 = 0

\* db_transaction entry (acquire _db_lock, BEGIN IMMEDIATE) and the body of
\* the block, which runs to its end or to the exception it raises.
Run7(p) ==
    /\ proc7[p].pc = "called"
    /\ PreCheck7(proc7[p].req) = "-"
    /\ LockFree7
    /\ lock7' = p
    /\ tx7' = Body7(db7, proc7[p].req, 0)
    /\ proc7' = [proc7 EXCEPT ![p].pc = "ran"]
    /\ UNCHANGED <<db7, last7>>

\* The same, the body cut short by a storage fault at one of its statements.
Fault7(p) ==
    /\ proc7[p].pc = "called"
    /\ PreCheck7(proc7[p].req) = "-"
    /\ LockFree7
    /\ lock7' = p
    /\ \E f \in 1..Statements7(proc7[p].req) :
           tx7' = Body7(db7, proc7[p].req, f)
    /\ proc7' = [proc7 EXCEPT ![p].pc = "ran"]
    /\ UNCHANGED <<db7, last7>>

\* A db_transaction whose exit by an exception keeps _db_lock.
End7_keeps_lock(p) ==
    /\ proc7[p].pc = "ran"
    /\ lock7 = p
    /\ db7' = EndTransaction7(db7, tx7)
    /\ lock7' = IF tx7.exc = "-" THEN 0 ELSE p
    /\ tx7' = NoTx7
    /\ proc7' = [proc7 EXCEPT ![p] = IdleProc7]
    /\ last7' = [key |-> Key7(proc7[p].req), resp |-> Response7(proc7[p].req, tx7.exc),
                 arrived |-> proc7[p].arrived]

\* db_transaction exit (commit or rollback, release _db_lock) and the
\* route's answer.
End7(p) ==
    /\ proc7[p].pc = "ran"
    /\ lock7 = p
    /\ db7' = EndTransaction7(db7, tx7)
    /\ lock7' = 0
    /\ tx7' = NoTx7
    /\ proc7' = [proc7 EXCEPT ![p] = IdleProc7]
    /\ last7' = [key |-> Key7(proc7[p].req), resp |-> Response7(proc7[p].req, tx7.exc),
                 arrived |-> proc7[p].arrived]

\* ========================================================================
\* app.py
\* ========================================================================
\* Money in whole rupees.  Every database access of a handler is its own
\* connection and its own transaction, so a handler is a sequence of steps.
ProcsA == {1, 2}
SeqA == {1}

\* The balance of the wallet's first row.
INITIAL_BALANCE_A == 1000000

VARIABLES
    tradesA,  \* the trades table: one row per accepted event
    walletA,  \* the wallet table: one row per balance change, the last is current
    idA,      \* the last id the trades table assigned
    callsA,   \* the number of requests received
    procA     \* per request slot: pc, payload, the handler's locals, the response

varsA == <<tradesA, walletA, idA, callsA, procA>>

EventsA == {"ENTRY", "TARGET1", "TARGET2", "STOPLOSS"}

WebhookA(secret, event, tag, price, side) ==
    [op |-> "webhook", secret |-> secret, event |-> event, tag |-> tag,
     price |-> price, side |-> side, symbol |-> "NIFTY", amount |-> 0]

AdminA(op, amount) ==
    [op |-> op, secret |-> TRUE, event |-> "-", tag |-> NoTag,
     price |-> 0, side |-> "-", symbol |-> "-", amount |-> amount]

PayloadsA ==
    {WebhookA(TRUE, "ENTRY", t, 100, s) : t \in Tags, s \in Sides}
    \cup {WebhookA(TRUE, e, t, 120, s) :
              e \in EventsA \ {"ENTRY"}, t \in Tags, s \in Sides}
    \cup {WebhookA(FALSE, "ENTRY", "T1", 100, "BUY")}
    \cup {WebhookA(TRUE, "ENTRY", "T1", 0, "BUY")}
    \cup {WebhookA(TRUE, "TARGET1", NoTag, 100, "BUY")}
    \cup {WebhookA(TRUE, "ENTRY", NoTag, 100, "BUY"),
          WebhookA(TRUE, "ENTRY", "T1", 100, NoSide),
          [WebhookA(TRUE, "ENTRY", "T1", 100, "BUY") EXCEPT !.symbol = NoSymbol],
          WebhookA(TRUE, "TARGET1", "T1", 0, "BUY"),
          WebhookA(TRUE, "TARGET1", "T1", 120, NoSide)}
    \cup {WebhookA(TRUE, "PING", "T1", 100, "BUY")}
    \cup {AdminA("add_funds", a) : a \in {0, 50000}}
    \cup {AdminA("clear_trades", 0)}

NoPayloadA == AdminA("-", 0)

\* get_wallet_balance: the balance of the newest wallet row, 0.0 without one.
get_wallet_balance(wallet) == IF wallet = <<>> THEN 0 ELSE Last(wallet).balance

\* The uniqueness constraint over (tag, event) of the trades table.
UniqueViolationA(trades, tag, event) ==
    \E i \in 1..Len(trades) : trades[i].tag = tag /\ trades[i].event = event

\* SELECT * FROM trades WHERE tag = ? AND event = 'ENTRY' ORDER BY id DESC
\* LIMIT 1: the index of the row (0: none).
EntryTradeA(trades, tag) ==
    LET hits == {i \in 1..Len(trades) :
                    trades[i].tag = tag /\ trades[i].event = "ENTRY"}
    IN  IF hits = {} THEN 0
        ELSE CHOOSE i \in hits : \A j \in hits : trades[j].id <= trades[i].id

\* SELECT id FROM trades WHERE tag = ? ORDER BY id DESC LIMIT 1 (0: None).
LatestTradeIdA(trades, tag) ==
    LET hits == {i \in 1..Len(trades) : trades[i].tag = tag}
    IN  IF hits = {} THEN 0
        ELSE LET i == CHOOSE k \in hits : \A j \in hits : trades[j].id <= trades[k].id
             IN  trades[i].id

\* SELECT change FROM wallet WHERE trade_id = ? AND reason LIKE 'ENTRY_%'
\* ORDER BY id DESC LIMIT 1: the index of the row (0: none).
EntryWalletRowA(wallet, trade_id) ==
    LET hits == {i \in 1..Len(wallet) :
                    wallet[i].trade_id = trade_id /\ wallet[i].reason = "ENTRY"}
    IN  IF hits = {} THEN 0 ELSE CHOOSE i \in hits : \A j \in hits : j <= i

Abs(x) == IF x < 0 THEN -x ELSE x

\* position_size = balance_before * 0.3
PositionSizeA(balance_before) == RoundDiv(balance_before * 3, 10)

\* The fallback estimate: (current_balance / 0.7) * 0.3
EstimatedSizeA(current_balance) == RoundDiv(current_balance * 3, 7)

\* pnl = position_size * (price - entry_price) / entry_price for BUY, the
\* reverse for SELL.
ExitPnlA(side, position_size, price, entry_price) ==
    IF side = "BUY" THEN RoundDiv(position_size * (price - entry_price), entry_price)
    ELSE RoundDiv(position_size * (entry_price - price), entry_price)

\* The validation of tv_webhook before it touches the database ("-": passed).
ValidateA(pl) ==
    IF ~pl.secret THEN "error401"
    ELSE IF pl.side = NoSide \/ pl.symbol = NoSymbol \/ pl.price = 0 \/ pl.tag = NoTag
    THEN "error400"
    ELSE IF pl.event \notin {"ENTRY", "TARGET1", "TARGET2", "STOPLOSS"} THEN "error400"
    ELSE IF pl.side \notin {"BUY", "SELL"} THEN "error400"
    ELSE "-"

\* exec_with_retry's number of attempts.
RetriesA == 5

IdleProcA ==
    [pc |-> "idle", req |-> NoPayloadA, resp |-> "-", attempt |-> 0,
     balance_before |-> 0, balance_after |-> 0, position_size |-> 0,
     entry_id |-> 0, entry_price |-> 0, trade_id |-> 0]

\* The tables as the application finds them: no trades, the wallet's first row.
InitA ==
    /\ tradesA = <<>>
    /\ walletA = <<[balance |-> INITIAL_BALANCE_A, change |-> INITIAL_BALANCE_A,
                    reason |-> "INITIAL", trade_id |-> 0, tag |-> NoTag,
                    returned |-> 0]>>
    /\ idA = 0
    /\ callsA = 0
    /\ procA = [p \in ProcsA |-> IdleProcA]

\* The handler returns: the slot keeps the request and its response until the
\* next request arrives.
ReturnA(p, resp) ==
    procA' = [procA EXCEPT ![p] = [IdleProcA EXCEPT !.req = procA[p].req,
                                                     !.resp = resp]]

ReceiveA(p, pl) ==
    /\ procA[p].pc = "idle"
    /\ callsA < MaxCallsA
    /\ callsA' = callsA + 1
    /\ procA' = [procA EXCEPT ![p] = [IdleProcA EXCEPT !.pc = "called", !.req = pl]]
    /\ UNCHANGED <<tradesA, walletA, idA>>

\* tv_webhook up to its first database access: the secret and the fields.
CheckA(p) ==
    /\ procA[p].pc = "called"
    /\ procA[p].req.op = "webhook"
    /\ IF ValidateA(procA[p].req) # "-"
       THEN ReturnA(p, ValidateA(procA[p].req))
       ELSE procA' = [procA EXCEPT ![p].pc =
                         IF procA[p].req.event = "ENTRY" THEN "entry" ELSE "exit"]
    /\ UNCHANGED <<tradesA, walletA, idA, callsA>>

\* ENTRY: balance_before = get_wallet_balance(), the 30% position.
EntryReadA(p) ==
    /\ procA[p].pc = "entry"
    /\ LET bb == get_wallet_balance(walletA)
       IN  procA' = [procA EXCEPT ![p].pc = "insert",
                                  ![p].balance_before = bb,
                                  ![p].position_size = PositionSizeA(bb),
                                  ![p].balance_after = bb - PositionSizeA(bb)]
    /\ UNCHANGED <<tradesA, walletA, idA, callsA>>

\* Exit: the ENTRY trade of the tag, or the 400 answer without one.
ExitFindA(p) ==
    /\ procA[p].pc = "exit"
    /\ LET i == EntryTradeA(tradesA, procA[p].req.tag)
       IN  IF i = 0 \/ tradesA[i].price = 0
           THEN ReturnA(p, "error400")
           ELSE procA' = [procA EXCEPT ![p].pc = "size",
                                       ![p].entry_id = tradesA[i].id,
                                       ![p].entry_price = tradesA[i].price]
    /\ UNCHANGED <<tradesA, walletA, idA, callsA>>

\* Exit: the position size from the ENTRY's wallet row, or the fallback.
ExitSizeA(p) ==
    /\ procA[p].pc = "size"
    /\ LET i == EntryWalletRowA(walletA, procA[p].entry_id)
       IN  IF i # 0
           THEN procA' = [procA EXCEPT ![p].pc = "balance",
                                       ![p].position_size = Abs(walletA[i].change)]
           ELSE procA' = [procA EXCEPT ![p].pc = "fallback"]
    /\ UNCHANGED <<tradesA, walletA, idA, callsA>>

\* Exit: the fallback estimate from the current balance.
ExitFallbackA(p) ==
    /\ procA[p].pc = "fallback"
    /\ procA' = [procA EXCEPT ![p].pc = "balance",
                    ![p].position_size = EstimatedSizeA(get_wallet_balance(walletA))]
    /\ UNCHANGED <<tradesA, walletA, idA, callsA>>

\* Exit: balance_before = get_wallet_balance(), the PnL and the new balance.
ExitBalanceA(p) ==
    /\ procA[p].pc = "balance"
    /\ LET bb == get_wallet_balance(walletA)
           pnl == ExitPnlA(procA[p].req.side, procA[p].position_size,
                           procA[p].req.price, procA[p].entry_price)
       IN  procA' = [procA EXCEPT ![p].pc = "insert",
                                  ![p].balance_before = bb,
                                  ![p].balance_after = bb + procA[p].position_size + pnl]
    /\ UNCHANGED <<tradesA, walletA, idA, callsA>>

\* exec_with_retry of the INSERT INTO trades: the attempt commits, or the
\* insert violates the uniqueness constraint and the handler answers
\* duplicate_ignored.
InsertTradeA(p) ==
    /\ procA[p].pc = "insert"
    /\ IF UniqueViolationA(tradesA, procA[p].req.tag, procA[p].req.event)
       THEN /\ ReturnA(p, "duplicate")
            /\ UNCHANGED <<tradesA, idA>>
       ELSE /\ tradesA' = Append(tradesA,
                              [id |-> idA + 1, event |-> procA[p].req.event,
                               tag |-> procA[p].req.tag, side |-> procA[p].req.side,
                               price |-> procA[p].req.price,
                               wallet_after |-> procA[p].balance_after])
            /\ idA' = idA + 1
            /\ procA' = [procA EXCEPT ![p].pc = "trade_id", ![p].attempt = 0]
    /\ UNCHANGED <<walletA, callsA>>

\* The id of the newest trades row of the tag, for the wallet row.
TradeIdA(p) ==
    /\ procA[p].pc = "trade_id"
    /\ procA' = [procA EXCEPT ![p].pc = "log",
                    ![p].trade_id = LatestTradeIdA(tradesA, procA[p].req.tag)]
    /\ UNCHANGED <<tradesA, walletA, idA, callsA>>

\* The wallet row log_wallet_change inserts.
WalletRowA(pr) ==
    [balance |-> pr.balance_after,
     change |-> pr.balance_after - pr.balance_before,
     reason |-> IF pr.req.op = "webhook" THEN pr.req.event
                ELSE IF pr.req.op = "clear_trades" THEN "TRADES_CLEARED"
                ELSE "MANUAL_DEPOSIT",
     trade_id |-> pr.trade_id,
     tag |-> pr.req.tag,
     returned |-> IF pr.req.op = "webhook" /\ pr.req.event # "ENTRY"
                  THEN pr.position_size ELSE 0]

\* log_wallet_change: exec_with_retry of the INSERT INTO wallet commits and
\* the handler returns.
LogWalletA(p) ==
    /\ procA[p].pc = "log"
    /\ walletA' = Append(walletA, WalletRowA(procA[p]))
    /\ ReturnA(p, "ok")
    /\ UNCHANGED <<tradesA, idA, callsA>>

\* An attempt of exec_with_retry meets "database is locked": it is retried
\* while attempt < retries - 1, and raised to the handler otherwise, which
\* answers 500.
LockedA(p) ==
    /\ procA[p].pc \in {"insert", "log", "delete"}
    /\ IF procA[p].attempt < RetriesA - 1
       THEN procA' = [procA EXCEPT ![p].attempt = @ + 1]
       ELSE ReturnA(p, "error500")
    /\ UNCHANGED <<tradesA, walletA, idA, callsA>>

\* clear_trades: the current balance.
ClearReadA(p) ==
    /\ procA[p].pc = "called"
    /\ procA[p].req.op = "clear_trades"
    /\ LET bb == get_wallet_balance(walletA)
       IN  procA' = [procA EXCEPT ![p].pc = "delete", ![p].balance_before = bb,
                                  ![p].balance_after = bb]
    /\ UNCHANGED <<tradesA, walletA, idA, callsA>>

\* clear_trades: exec_with_retry of DELETE FROM trades commits.
ClearDeleteA(p) ==
    /\ procA[p].pc = "delete"
    /\ tradesA' = <<>>
    /\ procA' = [procA EXCEPT ![p].pc = "log", ![p].attempt = 0]
    /\ UNCHANGED <<walletA, idA, callsA>>

\* add_funds: the amount check and the current balance.
AddReadA(p) ==
    /\ procA[p].pc = "called"
    /\ procA[p].req.op = "add_funds"
    /\ IF procA[p].req.amount <= 0
       THEN ReturnA(p, "error400")
       ELSE LET bb == get_wallet_balance(walletA)
            IN  procA' = [procA EXCEPT ![p].pc = "log", ![p].balance_before = bb,
                                       ![p].balance_after = bb + procA[p].req.amount]
    /\ UNCHANGED <<tradesA, walletA, idA, callsA>>

\* ========================================================================
\* app-v4.py
\* ========================================================================
\* A handler works on one connection and commits once at its end; its first
\* statement, the INSERT INTO events, takes the database's write lock, so
\* handlers run one after another and each is one step.

\* START_BALANCE, TV_START_BALANCE's default, in paise.
START_BALANCE == 1000000 * 100

VARIABLES
    wallet4,  \* wallet.balance of the single wallet row
    ledger4,  \* the ledger table
    trades4,  \* the trades table: one row per tag (UNIQUE), NoTrade4 without one
    events4,  \* the number of rows of the events table
    call4     \* the last call and its response

vars4 == <<wallet4, ledger4, trades4, events4, call4>>

NoTrade4 ==
    [exists |-> FALSE, side |-> "-", entry |-> 0, status |-> "-", qty |-> 0,
     spent |-> 0, realized_pnl |-> 0, t1_price |-> 0, t2_price |-> 0, sl_price |-> 0]

Webhook4(secret, event, tag, price, side) ==
    [op |-> "webhook", secret |-> secret, event |-> event, tag |-> tag,
     price |-> price, side |-> side]

Payloads4 ==
    {Webhook4(TRUE, "ENTRY", "T1", 100, s) : s \in Sides}
    \cup {Webhook4(TRUE, "ENTRY", "T1", 0, "BUY")}
    \cup {Webhook4(TRUE, "ENTRY", "T2", 100, "BUY")}
    \cup {Webhook4(TRUE, e, "T1", p, "BUY") :
              e \in {"TARGET1", "TARGET2", "STOPLOSS"}, p \in {90, 110}}
    \cup {Webhook4(TRUE, "TARGET1", "T1", 0, "BUY")}
    \cup {Webhook4(TRUE, "TARGET2", "T2", 110, "BUY")}
    \cup {Webhook4(TRUE, "PING", "T1", 100, "BUY")}
    \cup {Webhook4(FALSE, "ENTRY", "T1", 100, "BUY")}

\* The payloads of the runs that follow one tag further.
PayloadsD4 ==
    {Webhook4(TRUE, "ENTRY", "T1", 100, "BUY"),
     Webhook4(TRUE, "TARGET1", "T1", 110, "BUY"),
     Webhook4(TRUE, "TARGET2", "T1", 110, "BUY"),
     Webhook4(TRUE, "TARGET2", "T1", 90, "BUY"),
     Webhook4(TRUE, "STOPLOSS", "T1", 90, "BUY")}

\* The payloads of the runs that open and close one tag at one price.
PayloadsPar4 ==
    {Webhook4(TRUE, e, "T1", 100, "BUY") :
         e \in {"ENTRY", "TARGET1", "TARGET2", "STOPLOSS"}}

\* The payloads of the runs that vary the price of an ENTRY.
PayloadsE4 == {Webhook4(TRUE, "ENTRY", "T1", p, "BUY") : p \in PricesE \cup {0, -5}}

\* Values of TV_START_BALANCE that leave nothing to allocate, in paise.
StartsE4 == {0, -1000 * 100}

LedgerRow4(type, tag, side, qty, price, amount, balance_after) ==
    [type |-> type, tag |-> tag, side |-> side, qty |-> qty, price |-> price,
     amount |-> amount, balance_after |-> balance_after]

\* The wallet and the ledger of a handler's working state.
Cash4(balance, ledger) == [balance |-> balance, ledger |-> ledger]

\* A wallet_apply that records the balance it found.
wallet_apply_before(cash, delta, ltype, tag, side, qty, price) ==
    LET new_bal == cash.balance + delta
    IN  Cash4(new_bal,
              Append(cash.ledger,
                     LedgerRow4(ltype, tag, side, qty, price, delta, cash.balance)))

\* wallet_apply: the balance moved by delta and the ledger entry of the move.
wallet_apply(cash, delta, ltype, tag, side, qty, price) ==
    LET new_bal == cash.balance + delta
    IN  Cash4(new_bal,
              Append(cash.ledger, LedgerRow4(ltype, tag, side, qty, price, delta, new_bal)))

\* An allocation of the whole balance.
allocate_for_entry_all(bal, price) ==
    IF price <= 0 \/ bal <= 0
    THEN [qty |-> 0, spend |-> 0]
    ELSE LET qty == 2 * RoundDiv(bal, 2 * price)
         IN  [qty |-> qty, spend |-> qty * price]

\* An allocation that looks at the price only.
allocate_for_entry_price_only(bal, price) ==
    IF price <= 0
    THEN [qty |-> 0, spend |-> 0]
    ELSE LET qty == 2 * RoundDiv(bal, 4 * price)
         IN  [qty |-> qty, spend |-> qty * price]

\* allocate_for_entry: (qty, spend) for ALLOCATION_PCT = 0.5 of the balance.
\* The quotient alloc_cash / price is kept on a grid of 0.02 unit, so
\* that halving a quantity is exact, as it is in binary floating point.
allocate_for_entry(bal, price) ==
    IF price <= 0 \/ bal <= 0
    THEN [qty |-> 0, spend |-> 0]
    ELSE LET qty == 2 * RoundDiv(bal, 4 * price)
         IN  [qty |-> qty, spend |-> qty * price]

\* f"ENTRY_{side or 'NA'}", the ledger type of an ENTRY.
EntryType4(side) ==
    IF side = "BUY" THEN "ENTRY_BUY"
    ELSE IF side = "SELL" THEN "ENTRY_SELL"
    ELSE "ENTRY_NA"

\* The ENTRY branch of tv_webhook: the allocation and the upsert of the trade.
Entry4(cash, trades, pl) ==
    LET a == allocate_for_entry(cash.balance, pl.price)
        cash1 == IF a.qty > 0 /\ a.spend > 0
                 THEN wallet_apply(cash, -a.spend, EntryType4(pl.side), pl.tag,
                                   pl.side, a.qty, pl.price)
                 ELSE cash
        old == trades[pl.tag]
        row == [exists |-> TRUE, side |-> pl.side, entry |-> pl.price,
                status |-> "OPEN", qty |-> a.qty, spent |-> a.spend,
                realized_pnl |-> 0,
                t1_price |-> old.t1_price, t2_price |-> old.t2_price,
                sl_price |-> old.sl_price]
    IN  [cash |-> cash1, trades |-> [trades EXCEPT ![pl.tag] = row], resp |-> "ok"]

\* realize: close `halves`/2 of the opened quantity at exit_price.
realize(cash, trade, tag, halves, exit_price, ltype) ==
    LET q == (trade.qty * halves) \div 2
        proceeds == q * exit_price
        pnl == IF trade.side = "BUY" THEN (exit_price - trade.entry) * q
               ELSE (trade.entry - exit_price) * q
    IN  [cash |-> wallet_apply(cash, proceeds, ltype, tag, trade.side, q, exit_price),
         realized |-> trade.realized_pnl + pnl]

\* A part that forgets TARGET1.
Part4_whole(trade) == 2

\* part = 0.5 if t1_done else 1.0, in halves.
Part4(trade) == IF trade.t1_price # 0 THEN 1 ELSE 2

\* A t1_done that never sees the recorded TARGET1.
t1_done_never(trade) == FALSE

\* t1_done: the trade's t1_price is not None.
t1_done(trade) == trade.t1_price # 0

\* The branch of tv_webhook for the events other than ENTRY.
Exit4(cash, trades, pl) ==
    LET trade == trades[pl.tag]
    IN  IF ~trade.exists
        THEN [cash |-> cash, trades |-> trades, resp |-> "unknown_tag"]
        ELSE IF pl.event = "TARGET1" /\ pl.price > 0
        THEN IF ~t1_done(trade)
             THEN LET r == realize(cash, trade, pl.tag, 1, pl.price, "EXIT_T1")
                  IN  [cash |-> r.cash,
                       trades |-> [trades EXCEPT ![pl.tag] =
                                      [trade EXCEPT !.t1_price = pl.price,
                                                    !.status = "PARTIAL",
                                                    !.realized_pnl = r.realized]],
                       resp |-> "ok"]
             ELSE [cash |-> cash, trades |-> trades, resp |-> "ok"]
        ELSE IF pl.event = "TARGET2" /\ pl.price > 0
        THEN LET r == realize(cash, trade, pl.tag, Part4(trade), pl.price, "EXIT_T2")
             IN  [cash |-> r.cash,
                  trades |-> [trades EXCEPT ![pl.tag] =
                                 [trade EXCEPT !.t2_price = pl.price,
                                               !.status = "CLOSED_T2",
                                               !.realized_pnl = r.realized]],
                  resp |-> "ok"]
        ELSE IF pl.event = "STOPLOSS" /\ pl.price > 0
        THEN LET r == realize(cash, trade, pl.tag, Part4(trade), pl.price, "EXIT_SL")
             IN  [cash |-> r.cash,
                  trades |-> [trades EXCEPT ![pl.tag] =
                                 [trade EXCEPT !.sl_price = pl.price,
                                               !.status = "CLOSED_SL",
                                               !.realized_pnl = r.realized]],
                  resp |-> "ok"]
        ELSE [cash |-> cash, trades |-> trades, resp |-> "ok"]

\* The database after init_db and migrate_schema when TV_START_BALANCE is
\* `start`: the seeded wallet and its RESET ledger entry.
init_db(start) ==
    /\ wallet4 = start
    /\ ledger4 = <<LedgerRow4("RESET", NoTag, "-", 0, 0, start, start)>>
    /\ trades4 = [t \in Tags |-> NoTrade4]
    /\ events4 = 0
    /\ call4 = [req |-> Webhook4(TRUE, "-", NoTag, 0, "-"), resp |-> "-"]

\* The database of the default configuration.
Init4 == init_db(START_BALANCE)

\* The tables have room for one more webhook.
Admitted4(maxLedger, maxEvents) == Len(ledger4) < maxLedger /\ events4 < maxEvents

\* tv_webhook refuses a wrong secret before it opens the database.
BadSecret4(pl) ==
    /\ ~pl.secret
    /\ call4' = [req |-> pl, resp |-> "error401"]
    /\ UNCHANGED <<wallet4, ledger4, trades4, events4>>

\* A tv_webhook that rolls its audit row back when the tag is unknown.
tv_webhook4_unaudited(pl) ==
    /\ pl.secret
    /\ LET r == IF pl.event = "ENTRY"
                THEN Entry4(Cash4(wallet4, ledger4), trades4, pl)
                ELSE Exit4(Cash4(wallet4, ledger4), trades4, pl)
       IN  /\ wallet4' = r.cash.balance
           /\ ledger4' = r.cash.ledger
           /\ trades4' = r.trades
           /\ call4' = [req |-> pl, resp |-> r.resp]
           /\ events4' = IF r.resp = "unknown_tag" THEN events4 ELSE events4 + 1

\* tv_webhook: the audit row, then the event's branch, then the commit.
tv_webhook4(pl) ==
    /\ pl.secret
    /\ LET r == IF pl.event = "ENTRY"
                THEN Entry4(Cash4(wallet4, ledger4), trades4, pl)
                ELSE Exit4(Cash4(wallet4, ledger4), trades4, pl)
       IN  /\ wallet4' = r.cash.balance
           /\ ledger4' = r.cash.ledger
           /\ trades4' = r.trades
           /\ call4' = [req |-> pl, resp |-> r.resp]
    /\ events4' = events4 + 1

\* clear_db: DELETE FROM trades; DELETE FROM events.
clear_db ==
    /\ trades4' = [t \in Tags |-> NoTrade4]
    /\ events4' = 0
    /\ call4' = [req |-> [op |-> "clear_db", secret |-> TRUE, event |-> "-",
                          tag |-> NoTag, price |-> 0, side |-> "-"],
                 resp |-> "ok"]
    /\ UNCHANGED <<wallet4, ledger4>>

\* ========================================================================
\* app-v2.py and app-old.py
\* ========================================================================
\* The two loggers keep one table, trade_events, written by tv_webhook: a
\* query for an existing (event, symbol, tag) row, then the insert, each its
\* own statement on the request's session.  Request handlers of several
\* server processes share the database file; p is one in-flight request.
Procs2 == {1, 2}

\* The TVAlert of a request; NoTag stands for tag None or "".
Alert2(secret, event, symbol, tag) ==
    [op |-> "webhook", secret |-> secret, event |-> event, symbol |-> symbol, tag |-> tag]

NoAlert2 == [op |-> "-", secret |-> TRUE, event |-> "-", symbol |-> "-", tag |-> NoTag]

Alerts2 ==
    {Alert2(TRUE, e, "NIFTY", t) : e \in {"ENTRY", "TARGET1"}, t \in {"T1", NoTag}}
    \cup {Alert2(TRUE, "ENTRY", "BANKNIFTY", "T1")}
    \cup {Alert2(FALSE, "ENTRY", "NIFTY", "T1")}

VARIABLES
    events2,  \* trade_events: the committed rows, in insertion order
    proc2     \* per request: pc, alert, response

vars2 == <<events2, proc2>>

IdleProc2 == [pc |-> "idle", req |-> NoAlert2, resp |-> "-", id |-> 0]

Init2 ==
    /\ events2 = <<>>
    /\ proc2 = [p \in Procs2 |-> IdleProc2]

\* The id of the first row with the alert's (event, symbol, tag), 0 if none:
\* db.query(TradeEvent).filter(...).first().
RECURSIVE Existing2(_, _, _)
Existing2(rows, a, i) ==
    IF i > Len(rows) THEN 0
    ELSE IF rows[i].event = a.event /\ rows[i].symbol = a.symbol /\ rows[i].tag = a.tag
    THEN rows[i].id
    ELSE Existing2(rows, a, i + 1)

\* A request arrives; the slot keeps the previous response until then.
Receive2(p, a) ==
    /\ proc2[p].pc \in {"idle", "done"}
    /\ proc2' = [proc2 EXCEPT ![p] = [IdleProc2 EXCEPT !.pc = "called", !.req = a]]
    /\ UNCHANGED events2

\* tv_webhook: the secret, then the idempotency query when the tag is not
\* empty.
Query2(p) ==
    /\ proc2[p].pc = "called"
    /\ LET a == proc2[p].req
           existing == IF a.tag = NoTag THEN 0 ELSE Existing2(events2, a, 1)
       IN  proc2' = [proc2 EXCEPT ![p] =
                       IF ~a.secret THEN [@ EXCEPT !.pc = "done", !.resp = "error401"]
                       ELSE IF existing # 0
                       THEN [@ EXCEPT !.pc = "done", !.resp = "dup", !.id = existing]
                       ELSE [@ EXCEPT !.pc = "insert"]]
    /\ UNCHANGED events2

\* tv_webhook: db.add(row); db.commit(); db.refresh(row).  The id is the
\* largest id of the table plus one.
Insert2(p) ==
    /\ proc2[p].pc = "insert"
    /\ LET a == proc2[p].req
           id == IF events2 = <<>> THEN 1 ELSE Last(events2).id + 1
       IN  /\ events2' = Append(events2, [id |-> id, event |-> a.event,
                                          symbol |-> a.symbol, tag |-> a.tag])
           /\ proc2' = [proc2 EXCEPT ![p] = [@ EXCEPT !.pc = "done", !.resp = "ok",
                                                      !.id = id]]

\* app-old.py's /admin/clear: db.query(TradeEvent).delete(); db.commit().
Clear2 ==
    /\ events2 # <<>>
    /\ events2' = <<>>
    /\ UNCHANGED proc2

\* ========================================================================
\* The retry helpers: exec_with_retry of app.py, with_retry of
\* migrate_db_v7.py and of migrate_db.py
\* ========================================================================
\* One call of a helper is followed from its first attempt to its return or
\* its exception.  Delays are in milliseconds.
HelpersR == {"exec_with_retry", "migrate_db_v7.with_retry", "migrate_db.with_retry"}

\* The helpers each application runs: app.py calls exec_with_retry and, at
\* startup, migrate_db.main(); app_v7.py calls migrate_db_v7.main().
HelpersOf(program) ==
    IF program = "app" THEN {"exec_with_retry", "migrate_db.with_retry"}
    ELSE IF program = "app_v7" THEN {"migrate_db_v7.with_retry"}
    ELSE {}

\* The values of the retries parameter followed (its default is RetriesA).
RetriesR == {1, 2, RetriesA}
\* The number of statements of a batch given to exec_with_retry.
BatchesR == {1, 2}

\* What an attempt can raise: the exception's class and its message.
ErrorsR ==
    {[cls |-> "OperationalError", msg |-> m] :
        m \in {"database is locked", "database table is locked",
               "database is busy", "disk I/O error"}}
    \cup {[cls |-> "IntegrityError", msg |-> "UNIQUE constraint failed"],
          [cls |-> "Exception", msg |-> "database is locked"]}
NoErrorR == [cls |-> "-", msg |-> "-"]

\* "locked" in str(e).lower()
HasLocked(msg) == msg \in {"database is locked", "database table is locked"}

\* The errors a helper retries (when attempts are left).
RetryableR(helper, e) ==
    /\ e.cls = "OperationalError"
    /\ IF helper = "migrate_db.with_retry"
       THEN e.msg = "database is locked" \/ e.msg = "database is busy"
       ELSE HasLocked(e.msg)

\* 2 ** k
RECURSIVE Pow2(_)
Pow2(k) == IF k = 0 THEN 1 ELSE 2 * Pow2(k - 1)

\* The base delay of a helper: backoff=0.2, delay=0.2, delay=1.0.
BaseDelayR(helper) == IF helper = "migrate_db.with_retry" THEN 1000 ELSE 200

\* A backoff that starts at twice the base delay.
SleepR_doubled(helper, attempt) ==
    IF helper = "migrate_db.with_retry" THEN BaseDelayR(helper)
    ELSE BaseDelayR(helper) * Pow2(attempt + 1)

\* time.sleep's argument after the failure of attempt `attempt` (from 0):
\* backoff * (2 ** attempt) with backoff = 0.2 in exec_with_retry and in
\* migrate_db_v7.with_retry, delay = 1.0 in migrate_db.with_retry.
SleepR(helper, attempt) ==
    IF helper = "migrate_db.with_retry" THEN BaseDelayR(helper)
    ELSE BaseDelayR(helper) * Pow2(attempt)

\* The call of a retry helper that is followed: its loop variable, the
\* statements executed and not yet committed, the statements committed, the
\* attempts that ran to their end, the waits slept, the error caught last.
VARIABLE rt

IdleR ==
    [pc |-> "idle", helper |-> "-", retries |-> 0, batch |-> 0, attempt |-> 0,
     pending |-> 0, applied |-> 0, commits |-> 0, waits |-> <<>>,
     error |-> NoErrorR]

InitR == rt = IdleR

\* The helper is called: for attempt in range(retries), attempt 0 begins.
StartR(h, r, n) ==
    /\ rt.pc = "idle"
    /\ rt' = [IdleR EXCEPT !.pc = "attempt", !.helper = h, !.retries = r,
                           !.batch = IF h = "exec_with_retry" THEN n ELSE 0]

\* exec_with_retry: cur.execute of the next statement of the batch, inside
\* the attempt's connection.
ExecR ==
    /\ rt.pc = "attempt"
    /\ rt.helper = "exec_with_retry"
    /\ rt.pending < rt.batch
    /\ rt' = [rt EXCEPT !.pending = @ + 1]

\* exec_with_retry: conn.commit(), conn.close(), return.
CommitR ==
    /\ rt.pc = "attempt"
    /\ rt.helper = "exec_with_retry"
    /\ rt.pending = rt.batch
    /\ rt' = [rt EXCEPT !.applied = @ + rt.pending, !.commits = @ + 1,
                        !.pending = 0, !.pc = "returned"]

\* with_retry: return fn(*args, **kwargs).
ReturnR ==
    /\ rt.pc = "attempt"
    /\ rt.helper # "exec_with_retry"
    /\ rt' = [rt EXCEPT !.commits = @ + 1, !.pc = "returned"]

\* A loop that retries a lock error whatever the attempt.
FailR_unbounded(e) ==
    /\ rt.pc = "attempt"
    /\ \/ /\ RetryableR(rt.helper, e)
          /\ rt' = [rt EXCEPT !.pending = 0, !.error = e,
                              !.waits = Append(@, SleepR(rt.helper, rt.attempt)),
                              !.attempt = @ + 1]
       \/ /\ ~RetryableR(rt.helper, e)
          /\ rt' = [rt EXCEPT !.pending = 0, !.pc = "raised", !.error = e]

\* The attempt raises e (from a statement, from the commit, or from fn): the
\* attempt's connection is abandoned with its uncommitted statements; the
\* helper sleeps and begins the next attempt, or lets e reach the caller.
FailR(e) ==
    /\ rt.pc = "attempt"
    /\ \/ /\ RetryableR(rt.helper, e)
          /\ rt.attempt < rt.retries - 1
          /\ rt' = [rt EXCEPT !.pending = 0, !.error = e,
                              !.waits = Append(@, SleepR(rt.helper, rt.attempt)),
                              !.attempt = @ + 1]
       \/ /\ ~(RetryableR(rt.helper, e) /\ rt.attempt < rt.retries - 1)
          /\ rt' = [rt EXCEPT !.pending = 0, !.pc = "raised", !.error = e]

\* The caller goes on; another call may follow.
DoneR ==
    /\ rt.pc \in {"returned", "raised"}
    /\ rt' = IdleR

\* ========================================================================
\* Specifications
\* ========================================================================
\* The three applications are alternative deployments over their own
\* database; prog names the one that runs.
VARIABLE prog

vars == <<prog, vars7, varsA, vars4, rt, vars2>>

Init ==
    Init7 /\ InitA /\ Init4 /\ InitR /\ Init2 /\ prog \in {"app_v7", "app", "app-v4"}

Frame7 == UNCHANGED <<prog, varsA, vars4, rt, vars2>>
FrameA == UNCHANGED <<prog, vars7, vars4, rt, vars2>>
Frame4 == UNCHANGED <<prog, vars7, varsA, rt, vars2>>
FrameR == UNCHANGED <<prog, vars7, varsA, vars4, vars2>>
Frame2 == UNCHANGED <<prog, vars7, varsA, vars4, rt>>

\* app_v7.py: one client, one request at a time.
Next7 ==
    \E p \in Seq7 :
        \/ \E pl \in Payloads7 : Receive7(p, pl) /\ Frame7
        \/ Reject7(p) /\ Frame7
        \/ Run7(p) /\ Frame7
        \/ End7(p) /\ Frame7

\* app_v7.py: the same with storage faults inside transactions.
Next7F ==
    \E p \in Seq7 :
        \/ \E pl \in Payloads7 : Receive7(p, pl) /\ Frame7
        \/ Reject7(p) /\ Frame7
        \/ Run7(p) /\ Frame7
        \/ Fault7(p) /\ Frame7
        \/ End7(p) /\ Frame7

\* app_v7.py: concurrent requests.
Next7C ==
    \E p \in Procs7 :
        \/ \E pl \in PayloadsC7 : Receive7(p, pl) /\ Frame7
        \/ Run7(p) /\ Frame7
        \/ End7(p) /\ Frame7

\* app_v7.py: two requests in flight, every mutating operation, refusals
\* and storage faults inside transactions.
Next7W ==
    \E p \in Procs7 :
        \/ \E pl \in PayloadsW7 : Receive7(p, pl) /\ Frame7
        \/ Reject7(p) /\ Frame7
        \/ Run7(p) /\ Frame7
        \/ Fault7(p) /\ Frame7
        \/ End7(p) /\ Frame7

\* The scheduling of app_v7.py's handlers: a handler that can answer does,
\* a body that has started runs to its end, and a handler blocked on
\* _db_lock is among those woken each time the lock is released and is not
\* overtaken for ever.
Fair7W ==
    \A p \in Procs7 :
        /\ WF_vars(Reject7(p) /\ Frame7)
        /\ WF_vars(End7(p) /\ Frame7)
        /\ SF_vars((Run7(p) \/ Fault7(p)) /\ Frame7)

\* app.py: one client, one request at a time, no lock contention.  Every
\* write succeeds, so every trades row has its wallet row and ExitFallbackA
\* has nothing to do; it is part of NextAL.
NextA ==
    \E p \in SeqA :
        \/ \E pl \in PayloadsA : ReceiveA(p, pl) /\ FrameA
        \/ CheckA(p) /\ FrameA
        \/ EntryReadA(p) /\ FrameA
        \/ ExitFindA(p) /\ FrameA
        \/ ExitSizeA(p) /\ FrameA
        \/ ExitBalanceA(p) /\ FrameA
        \/ InsertTradeA(p) /\ FrameA
        \/ TradeIdA(p) /\ FrameA
        \/ LogWalletA(p) /\ FrameA
        \/ ClearReadA(p) /\ FrameA
        \/ ClearDeleteA(p) /\ FrameA
        \/ AddReadA(p) /\ FrameA

\* app.py: requests in flight in two server processes, each database access
\* its own connection and transaction.
NextAC ==
    \E p \in ProcsA :
        \/ \E pl \in PayloadsA : ReceiveA(p, pl) /\ FrameA
        \/ CheckA(p) /\ FrameA
        \/ EntryReadA(p) /\ FrameA
        \/ ExitFindA(p) /\ FrameA
        \/ ExitSizeA(p) /\ FrameA
        \/ ExitBalanceA(p) /\ FrameA
        \/ InsertTradeA(p) /\ FrameA
        \/ TradeIdA(p) /\ FrameA
        \/ LogWalletA(p) /\ FrameA
        \/ ClearReadA(p) /\ FrameA
        \/ ClearDeleteA(p) /\ FrameA
        \/ AddReadA(p) /\ FrameA

\* app.py: the same with "database is locked" errors.
NextAL ==
    \E p \in SeqA :
        \/ \E pl \in PayloadsA : ReceiveA(p, pl) /\ FrameA
        \/ CheckA(p) /\ FrameA
        \/ EntryReadA(p) /\ FrameA
        \/ ExitFindA(p) /\ FrameA
        \/ ExitSizeA(p) /\ FrameA
        \/ ExitFallbackA(p) /\ FrameA
        \/ ExitBalanceA(p) /\ FrameA
        \/ InsertTradeA(p) /\ FrameA
        \/ TradeIdA(p) /\ FrameA
        \/ LogWalletA(p) /\ FrameA
        \/ ClearReadA(p) /\ FrameA
        \/ ClearDeleteA(p) /\ FrameA
        \/ AddReadA(p) /\ FrameA
        \/ LockedA(p) /\ FrameA

\* app-v2.py and app-old.py: requests in flight in two server processes.
Next2 ==
    \/ \E p \in Procs2 : \E a \in Alerts2 :
           Len(events2) < MaxEvents2 /\ Receive2(p, a) /\ Frame2
    \/ \E p \in Procs2 : Query2(p) /\ Frame2
    \/ \E p \in Procs2 : Insert2(p) /\ Frame2
    \/ prog = "app-old" /\ Clear2 /\ Frame2

\* app-v4.py.
Next4 ==
    \/ \E pl \in Payloads4 : BadSecret4(pl) /\ Frame4
    \/ \E pl \in Payloads4 :
           Admitted4(MaxLedger4, MaxEvents4) /\ tv_webhook4(pl) /\ Frame4
    \/ clear_db /\ Frame4

\* app-v4.py: the webhooks of one tag, followed further.
Next4D ==
    \/ \E pl \in PayloadsD4 :
           Admitted4(DeepLedger4, DeepEvents4) /\ tv_webhook4(pl) /\ Frame4
    \/ clear_db /\ Frame4

\* app_v7.py and app-v4.py under ENTRY events of many prices.
NextE ==
    \/ prog = "app_v7" /\ \E p \in Seq7 : \E pl \in PayloadsE7 : Receive7(p, pl) /\ Frame7
    \/ prog = "app_v7" /\ \E p \in Seq7 : Run7(p) /\ Frame7
    \/ prog = "app_v7" /\ \E p \in Seq7 : End7(p) /\ Frame7
    \/ prog = "app-v4" /\ \E pl \in PayloadsE4 :
           Admitted4(MaxLedger4, MaxEvents4) /\ tv_webhook4(pl) /\ Frame4

\* The calls of the retry helpers.
NextR ==
    \/ \E h \in HelpersOf(prog), r \in RetriesR, n \in BatchesR :
           StartR(h, r, n) /\ FrameR
    \/ ExecR /\ FrameR
    \/ CommitR /\ FrameR
    \/ ReturnR /\ FrameR
    \/ \E e \in ErrorsR : FailR(e) /\ FrameR
    \/ DoneR /\ FrameR

\* Whichever application runs, one client, one request at a time.
NextAll ==
    \/ prog = "app_v7" /\ \E p \in Seq7 : \E pl \in Payloads7 : Receive7(p, pl) /\ Frame7
    \/ prog = "app_v7" /\ \E p \in Seq7 : Reject7(p) /\ Frame7
    \/ prog = "app_v7" /\ \E p \in Seq7 : Run7(p) /\ Frame7
    \/ prog = "app_v7" /\ \E p \in Seq7 : End7(p) /\ Frame7
    \/ prog = "app" /\ \E p \in SeqA : \E pl \in PayloadsA : ReceiveA(p, pl) /\ FrameA
    \/ prog = "app" /\ \E p \in SeqA : CheckA(p) /\ FrameA
    \/ prog = "app" /\ \E p \in SeqA : EntryReadA(p) /\ FrameA
    \/ prog = "app" /\ \E p \in SeqA : ExitFindA(p) /\ FrameA
    \/ prog = "app" /\ \E p \in SeqA : ExitSizeA(p) /\ FrameA
    \/ prog = "app" /\ \E p \in SeqA : ExitBalanceA(p) /\ FrameA
    \/ prog = "app" /\ \E p \in SeqA : InsertTradeA(p) /\ FrameA
    \/ prog = "app" /\ \E p \in SeqA : TradeIdA(p) /\ FrameA
    \/ prog = "app" /\ \E p \in SeqA : LogWalletA(p) /\ FrameA
    \/ prog = "app" /\ \E p \in SeqA : ClearReadA(p) /\ FrameA
    \/ prog = "app" /\ \E p \in SeqA : ClearDeleteA(p) /\ FrameA
    \/ prog = "app" /\ \E p \in SeqA : AddReadA(p) /\ FrameA
    \/ prog = "app-v4" /\ \E pl \in Payloads4 : BadSecret4(pl) /\ Frame4
    \/ prog = "app-v4" /\ \E pl \in Payloads4 :
           Admitted4(MaxLedger4, MaxEvents4) /\ tv_webhook4(pl) /\ Frame4
    \/ prog = "app-v4" /\ clear_db /\ Frame4

\* app_v7.py with one client and app-v4.py with one tag opened and closed
\* at one price.
NextPar ==
    \/ prog = "app_v7" /\ \E p \in Seq7 : \E pl \in Payloads7 : Receive7(p, pl) /\ Frame7
    \/ prog = "app_v7" /\ \E p \in Seq7 : Reject7(p) /\ Frame7
    \/ prog = "app_v7" /\ \E p \in Seq7 : Run7(p) /\ Frame7
    \/ prog = "app_v7" /\ \E p \in Seq7 : End7(p) /\ Frame7
    \/ prog = "app-v4" /\ \E pl \in PayloadsPar4 :
           Admitted4(DeepLedger4, DeepEvents4) /\ tv_webhook4(pl) /\ Frame4

InitV7 == Init /\ prog = "app_v7"
InitApp == Init /\ prog = "app"
InitV4 == Init /\ prog = "app-v4"
InitRetry == Init /\ prog \in {"app", "app_v7"}
InitV2 == Init7 /\ InitA /\ Init4 /\ InitR /\ Init2 /\ prog \in {"app-v2", "app-old"}
InitE ==
    \/ Init /\ prog \in {"app_v7", "app-v4"}
    \/ Init7 /\ InitA /\ InitR /\ Init2 /\ prog = "app-v4" /\ \E b \in StartsE4 : init_db(b)

SpecV7 == InitV7 /\ [][Next7]_vars
SpecV7F == InitV7 /\ [][Next7F]_vars
SpecV7C == InitV7 /\ [][Next7C]_vars
SpecV7W == InitV7 /\ [][Next7W]_vars /\ Fair7W
SpecApp == InitApp /\ [][NextA]_vars
SpecAppL == InitApp /\ [][NextAL]_vars
SpecAppC == InitApp /\ [][NextAC]_vars
SpecV4 == InitV4 /\ [][Next4]_vars
SpecV2 == InitV2 /\ [][Next2]_vars
SpecV4D == InitV4 /\ [][Next4D]_vars
SpecAll == Init /\ [][NextAll]_vars
SpecE == InitE /\ [][NextE]_vars
SpecPar == InitE /\ [][NextPar]_vars
\* A helper's loop goes on until it returns or raises.
SpecR == InitRetry /\ [][NextR]_vars /\ WF_vars(NextR)

\* ========================================================================
\* Properties of app_v7.py
\* ========================================================================
\* The step on which slot p's transaction ends and its answer is given.
Ends7(p) == proc7[p].pc = "ran" /\ proc7'[p].pc = "idle"

EntryOrExit7 == {"ENTRY"} \cup ExitEvents7

\* C1: a (tag, kind) webhook delivered right after the same (tag, kind)
\* webhook was applied is answered as a duplicate (status ok,
\* duplicate_ignored) and leaves the wallet balance as the first delivery
\* left it.
C1_SecondDeliveryIsDuplicate ==
    [][\A p \in Seq7 :
          (/\ Ends7(p)
           /\ proc7[p].req.op = "webhook"
           /\ proc7[p].req.event \in EntryOrExit7
           /\ proc7[p].repeat)
          => /\ last7'.resp = "duplicate"
             /\ Balance7(db7') = Balance7(db7)]_vars

\* The amounts of the ledger rows 2..n (row 1 is the seed).
RECURSIVE Moved7(_, _)
Moved7(ledger, n) == IF n < 2 THEN 0 ELSE ledger[n].amount + Moved7(ledger, n - 1)

\* C2: with ENTRY events delivered concurrently, every ENTRY debit is the
\* allocation computed against the balance the previously serialized
\* transaction left, the wallet balance is the seed plus the ledger's
\* amounts, each tag is debited once, and the balance is never negative.
C2_SerialAllocations ==
    LET L == db7.ledger IN
    /\ Balance7(db7) >= 0
    /\ Balance7(db7) = INITIAL_DEPOSIT7 + Moved7(L, Len(L))
    /\ \A i \in 2..Len(L) :
          L[i].type = "ENTRY" =>
             /\ L[i - 1].balance_after = INITIAL_DEPOSIT7 + Moved7(L, i - 1)
             /\ L[i].amount =
                  -EntrySpent7(EntryQty7(L[i - 1].balance_after, L[i].price), L[i].price)
             /\ L[i].balance_after = L[i - 1].balance_after + L[i].amount
             /\ \A j \in 2..Len(L) :
                   (L[j].type = "ENTRY" /\ L[j].tag = L[i].tag) => j = i

\* Two ENTRY events on distinct tags are applied, the second of them
\* delivered before the first was committed.
C2_Witness ==
    /\ Len(db7.ledger) = 3
    /\ db7.ledger[2].type = "ENTRY" /\ db7.ledger[3].type = "ENTRY"
    /\ db7.ledger[2].tag # db7.ledger[3].tag
    /\ last7.key.event = "ENTRY" /\ last7.resp = "ok" /\ last7.arrived = 1

\* C3: an ENTRY or exit event whose transaction body ends in an exception
\* (a storage fault at any statement, or the UNIQUE violation of the trades
\* insert) commits nothing: wallet, wallet_ledger and trades are afterwards
\* what they were before the event.
C3_FailedEventCommitsNothing ==
    [][\A p \in Seq7 :
          (/\ Ends7(p)
           /\ proc7[p].req.op = "webhook"
           /\ proc7[p].req.event \in EntryOrExit7
           /\ tx7.exc # "-")
          => /\ db7'.wallet = db7.wallet
             /\ db7'.ledger = db7.ledger
             /\ db7'.trades = db7.trades]_vars

\* A fault struck after the ledger insert and the balance update: the
\* working copy differs from the committed tables when the block is left.
C3_Witness ==
    \E p \in Seq7 :
        /\ proc7[p].pc = "ran"
        /\ proc7[p].req.event \in EntryOrExit7
        /\ tx7.exc \in {"OperationalError", "IntegrityError"}
        /\ Len(tx7.db.ledger) > Len(db7.ledger)
        /\ tx7.db.wallet # db7.wallet

\* The rows of a tag's ENTRY in the trades table and in the ledger.
EntryTrades7(db, tag) ==
    {i \in 1..Len(db.trades) : db.trades[i].event = "ENTRY" /\ db.trades[i].tag = tag}
EntryDebits7(db, tag) ==
    {i \in 1..Len(db.ledger) : db.ledger[i].type = "ENTRY" /\ db.ledger[i].tag = tag}

\* C4: an ENTRY delivery that found no (tag, ENTRY) row when it arrived is
\* applied when there is still none at its turn, and is answered as a
\* duplicate, changing nothing, when a concurrent delivery of the same
\* (tag, ENTRY) was applied meanwhile; either way there is then exactly one
\* ENTRY trade row and exactly one ENTRY ledger entry for the tag.
C4_ConcurrentSameEntry ==
    [][\A p \in Procs7 :
          (/\ Ends7(p)
           /\ proc7[p].req.op = "webhook"
           /\ proc7[p].req.event = "ENTRY"
           /\ proc7[p].fresh)
          => LET tag == proc7[p].req.tag IN
             /\ IF UniqueViolation7(db7.trades, tag, "ENTRY")
                THEN last7'.resp = "duplicate" /\ db7' = db7
                ELSE /\ last7'.resp = "ok"
                     /\ Balance7(db7') =
                          Balance7(db7) + db7'.ledger[Len(db7'.ledger)].amount
                     /\ Len(db7'.ledger) = Len(db7.ledger) + 1
             /\ Cardinality(EntryTrades7(db7', tag)) = 1
             /\ Cardinality(EntryDebits7(db7', tag)) = 1]_vars

\* Two deliveries of one (tag, ENTRY) arrived before either was committed;
\* the second has been answered as a duplicate and the tag is debited once.
C4_Witness ==
    /\ last7.key.event = "ENTRY" /\ last7.resp = "duplicate" /\ last7.arrived = 1
    /\ Cardinality(EntryTrades7(db7, last7.key.tag)) = 1
    /\ Cardinality(EntryDebits7(db7, last7.key.tag)) = 1
    /\ Balance7(db7) = INITIAL_DEPOSIT7 + db7.ledger[2].amount

\* The amounts of the ledger rows 1..n.
RECURSIVE Total7(_, _)
Total7(ledger, n) == IF n = 0 THEN 0 ELSE ledger[n].amount + Total7(ledger, n - 1)

\* C17: in every committed state, whatever requests were served (ENTRY,
\* exits, add-funds, clear-trades, unknown events, health, rejected ones),
\* the wallet balance is the sum of the signed amounts of all wallet_ledger
\* entries, the INITIAL_DEPOSIT entry included.
C17_BalanceIsLedgerSum ==
    Balance7(db7) = Total7(db7.ledger, Len(db7.ledger))

\* An ENTRY, an exit and a deposit are committed and the balance has moved.
C17_Witness ==
    /\ Len(db7.ledger) = 4
    /\ {db7.ledger[i].type : i \in 2..4} \cap {"ENTRY"} # {}
    /\ {db7.ledger[i].type : i \in 2..4} \cap ExitEvents7 # {}
    /\ {db7.ledger[i].type : i \in 2..4} \cap {"MANUAL_DEPOSIT"} # {}
    /\ Balance7(db7) # INITIAL_DEPOSIT7
    /\ lock7 = 0

\* ========================================================================
\* Properties of app.py
\* ========================================================================
\* The capital the exit events of a tag returned to the wallet.
RECURSIVE ReturnedA(_, _)
ReturnedA(wallet, tag) ==
    IF wallet = <<>> THEN 0
    ELSE (IF wallet[1].tag = tag THEN wallet[1].returned ELSE 0)
         + ReturnedA(Tail(wallet), tag)

\* The amount the ENTRY events of a tag took from the wallet.
RECURSIVE DebitedA(_, _)
DebitedA(wallet, tag) ==
    IF wallet = <<>> THEN 0
    ELSE (IF wallet[1].tag = tag /\ wallet[1].reason = "ENTRY"
          THEN -wallet[1].change ELSE 0)
         + DebitedA(Tail(wallet), tag)

\* C5: the capital returned to the wallet by the exit events of a tag never
\* exceeds the amount its ENTRY took from the wallet.
C5_NoDoubleCredit ==
    \A tag \in Tags : ReturnedA(walletA, tag) <= DebitedA(walletA, tag)

\* C6: once a webhook call has returned, every trades row has a wallet row
\* recording its balance change and every wallet row of a trade has its
\* trades row.
C6_TradeAndWalletTogether ==
    (\A p \in SeqA : procA[p].pc = "idle" /\ procA[p].req.op = "webhook")
    => /\ \A i \in 1..Len(tradesA) :
             \E j \in 1..Len(walletA) :
                 /\ walletA[j].trade_id = tradesA[i].id
                 /\ walletA[j].reason = tradesA[i].event
       /\ \A j \in 1..Len(walletA) :
             walletA[j].trade_id # 0 =>
                 \E i \in 1..Len(tradesA) : tradesA[i].id = walletA[j].trade_id

\* ========================================================================
\* Properties of the three webhook handlers
\* ========================================================================
\* C7: an exit event for a tag without a position is rejected and leaves the
\* wallet balance, the ledger and the position rows as they were, in
\* app_v7.py, in app.py and in app-v4.py.
C7_UnknownTagExitRejected ==
    [][/\ \A p \in Seq7 :
             (/\ Ends7(p)
              /\ proc7[p].req.op = "webhook"
              /\ proc7[p].req.event \in ExitEvents7
              /\ EntryTrades7(db7, proc7[p].req.tag) = {})
             => last7'.resp = "error400" /\ db7' = db7
       /\ \A p \in SeqA :
             (/\ procA[p].pc # "idle"
              /\ procA[p].req.op = "webhook"
              /\ procA[p].req.event \in ExitEvents7
              /\ EntryTradeA(tradesA, procA[p].req.tag) = 0)
             => /\ tradesA' = tradesA /\ walletA' = walletA
                /\ procA'[p].pc \in {"exit", "idle"}
                /\ procA'[p].pc = "idle" => procA'[p].resp \in {"error400", "error401"}
       /\ (/\ events4' = events4 + 1
           /\ call4'.req.event \in ExitEvents7
           /\ ~trades4[call4'.req.tag].exists)
          => /\ call4'.resp = "unknown_tag"
             /\ wallet4' = wallet4 /\ ledger4' = ledger4 /\ trades4' = trades4]_vars

\* app_v7.py has refused the exit of a tag that has no ENTRY row while
\* another tag's position is open.
C7_Witness ==
    /\ last7.key.op = "webhook"
    /\ last7.key.event \in ExitEvents7
    /\ last7.key.secret /\ last7.key.price > 0 /\ last7.key.tag \in Tags
    /\ last7.resp = "error400"
    /\ EntryTrades7(db7, last7.key.tag) = {}
    /\ \E t \in Tags : OpenEntry7(db7.trades, t) # 0

\* ========================================================================
\* Properties of app-v4.py
\* ========================================================================
\* The step of a webhook that passed the secret check.
Handled4 == events4' = events4 + 1

Closed4 == {"CLOSED_T2", "CLOSED_SL"}

\* C8: a priced exit event for a tag whose position, opened with a quantity,
\* is closed is rejected and changes neither the wallet balance, nor the
\* ledger, nor the position's status and realized PnL.
C8_ExitOnClosedRejected ==
    [][(/\ Handled4
        /\ call4'.req.event \in {"TARGET1", "TARGET2", "STOPLOSS"}
        /\ call4'.req.price > 0
        /\ trades4[call4'.req.tag].qty > 0
        /\ trades4[call4'.req.tag].status \in Closed4)
       => /\ call4'.resp # "ok"
          /\ wallet4' = wallet4
          /\ ledger4' = ledger4
          /\ trades4'[call4'.req.tag].status = trades4[call4'.req.tag].status
          /\ trades4'[call4'.req.tag].realized_pnl =
                trades4[call4'.req.tag].realized_pnl]_vars

\* The ledger row of the newest ENTRY of a tag (0: none).
RECURSIVE LastEntry4(_, _, _)
LastEntry4(ledger, tag, n) ==
    IF n = 0 THEN 0
    ELSE IF ledger[n].tag = tag /\ ledger[n].type \in {"ENTRY_BUY", "ENTRY_SELL", "ENTRY_NA"}
    THEN n
    ELSE LastEntry4(ledger, tag, n - 1)

\* The quantity the exit entries of a tag closed in the ledger rows m+1..n.
RECURSIVE ClosedQty4(_, _, _, _)
ClosedQty4(ledger, tag, m, n) ==
    IF n <= m THEN 0
    ELSE (IF ledger[n].tag = tag /\ ledger[n].type \in {"EXIT_T1", "EXIT_T2", "EXIT_SL"}
          THEN ledger[n].qty ELSE 0)
         + ClosedQty4(ledger, tag, m, n - 1)

\* C9: the quantity closed by a tag's exit entries since its ENTRY never
\* exceeds the quantity the ENTRY opened.
C9_ClosedAtMostOpened ==
    \A tag \in Tags :
        LET e == LastEntry4(ledger4, tag, Len(ledger4))
        IN  e # 0 => ClosedQty4(ledger4, tag, e, Len(ledger4)) <= ledger4[e].qty

\* C10: a closed position never becomes OPEN or PARTIAL again and a PARTIAL
\* one never becomes OPEN again, whatever priced webhook arrives (the
\* positions are those opened with a quantity).
C10_LifecycleOnlyForward ==
    [][(Handled4 /\ call4'.req.price > 0) =>
         \A tag \in Tags :
            trades4[tag].qty > 0 =>
               /\ trades4[tag].status \in Closed4
                     => trades4'[tag].status \notin {"OPEN", "PARTIAL"}
               /\ trades4[tag].status = "PARTIAL" => trades4'[tag].status # "OPEN"]_vars

\* C11: a priced ENTRY for a tag that already has a position (opened with a
\* quantity) is treated as a duplicate: the wallet is not debited again, no
\* ledger entry is written and the tag's position row stays as it was.
C11_EntryOnExistingTagIsDuplicate ==
    [][(/\ Handled4
        /\ call4'.req.event = "ENTRY"
        /\ call4'.req.price > 0
        /\ trades4[call4'.req.tag].exists
        /\ trades4[call4'.req.tag].qty > 0)
       => /\ wallet4' = wallet4
          /\ ledger4' = ledger4
          /\ trades4'[call4'.req.tag] = trades4[call4'.req.tag]]_vars

\* C12: the first priced exit applied to an OPEN position (opened with a
\* quantity) closes half of the opened quantity and leaves the position
\* PARTIAL when it is TARGET1, and closes the whole quantity and leaves the
\* position closed when it is TARGET2 or STOPLOSS.
C12_FirstExitOnOpen ==
    [][(/\ Handled4
        /\ call4'.req.event \in {"TARGET1", "TARGET2", "STOPLOSS"}
        /\ call4'.req.price > 0
        /\ trades4[call4'.req.tag].status = "OPEN"
        /\ trades4[call4'.req.tag].qty > 0)
       => LET tag == call4'.req.tag IN
          /\ Len(ledger4') = Len(ledger4) + 1
          /\ Last(ledger4').tag = tag
          /\ IF call4'.req.event = "TARGET1"
             THEN /\ 2 * Last(ledger4').qty = trades4[tag].qty
                  /\ trades4'[tag].status = "PARTIAL"
             ELSE /\ Last(ledger4').qty = trades4[tag].qty
                  /\ trades4'[tag].status \in Closed4]_vars

\* C13: a priced TARGET2 or STOPLOSS applied to a PARTIAL position closes
\* exactly the other half of the opened quantity and leaves the position
\* closed, and the quantity closed since the position's ENTRY is then the
\* quantity opened.
C13_SecondExitClosesRemainder ==
    [][(/\ Handled4
        /\ call4'.req.event \in {"TARGET2", "STOPLOSS"}
        /\ call4'.req.price > 0
        /\ trades4[call4'.req.tag].status = "PARTIAL"
        /\ trades4[call4'.req.tag].qty > 0)
       => LET tag == call4'.req.tag
              e == LastEntry4(ledger4', tag, Len(ledger4'))
          IN  /\ Len(ledger4') = Len(ledger4) + 1
              /\ Last(ledger4').tag = tag
              /\ 2 * Last(ledger4').qty = trades4[tag].qty
              /\ trades4'[tag].status \in Closed4
              /\ e # 0
              /\ ClosedQty4(ledger4', tag, e, Len(ledger4')) = trades4[tag].qty]_vars

\* The position of the scenario: T1 opened LONG at 100 with half of the seed.
Scenario4 ==
    [NoTrade4 EXCEPT !.exists = TRUE, !.side = "BUY", !.entry = 100,
                     !.status = "OPEN", !.qty = 5000 * 100,
                     !.spent = 500000 * 100]

\* C15: from the seed of 1,000,000 and with the fraction 0.5, ENTRY LONG T1
\* at 100 opens 5000 units and leaves 500,000 in the account; TARGET1 at 110
\* then closes half of them (2500), realizes +25,000, credits 275,000, leaves
\* 775,000 in the account and the position PARTIAL.
C15_ScenarioEntryAndFirstExit ==
    [][/\ (/\ Handled4
           /\ call4'.req = Webhook4(TRUE, "ENTRY", "T1", 100, "BUY")
           /\ wallet4 = START_BALANCE
           /\ ~trades4["T1"].exists)
          => /\ trades4'["T1"] = Scenario4
             /\ wallet4' = 500000 * 100
       /\ (/\ Handled4
           /\ call4'.req = Webhook4(TRUE, "TARGET1", "T1", 110, "BUY")
           /\ wallet4 = 500000 * 100
           /\ trades4["T1"] = Scenario4)
          => /\ Last(ledger4').qty = 2500 * 100
             /\ Last(ledger4').amount = 275000 * 100
             /\ wallet4' = 775000 * 100
             /\ trades4'["T1"].realized_pnl = 25000 * 100
             /\ trades4'["T1"].status = "PARTIAL"]_vars

\* TARGET1 at 110 has just been applied to the scenario's position.
C15_Witness ==
    /\ call4 = [req |-> Webhook4(TRUE, "TARGET1", "T1", 110, "BUY"), resp |-> "ok"]
    /\ Len(ledger4) = 3
    /\ ledger4[2].type = "ENTRY_BUY" /\ ledger4[2].price = 100
    /\ ledger4[3].type = "EXIT_T1"
    /\ trades4["T1"] = [Scenario4 EXCEPT !.status = "PARTIAL", !.t1_price = 110,
                                         !.realized_pnl = 25000 * 100]

\* The scenario's position after TARGET1 at 110.
ScenarioPartial4 ==
    [Scenario4 EXCEPT !.status = "PARTIAL", !.t1_price = 110,
                      !.realized_pnl = 25000 * 100]

\* The second exit of the scenario: TARGET2 or STOPLOSS at 90 arrives at the
\* scenario's PARTIAL position with 775,000 in the account.
ScenarioSecondExit4 ==
    /\ Handled4
    /\ call4'.req \in {Webhook4(TRUE, e, "T1", 90, "BUY") : e \in {"TARGET2", "STOPLOSS"}}
    /\ wallet4 = 775000 * 100
    /\ trades4["T1"] = ScenarioPartial4

\* C16, as stated: the second exit of the scenario, at 90 on the remaining
\* half, realizes -25,000, credits the account with 200,000, leaves 975,000
\* in it and the position closed.
C16_SecondExitAsStated ==
    [][ScenarioSecondExit4
       => /\ trades4'["T1"].realized_pnl - trades4["T1"].realized_pnl = -25000 * 100
          /\ Last(ledger4').amount = 200000 * 100
          /\ wallet4' = 975000 * 100
          /\ trades4'["T1"].status \in Closed4]_vars

\* C16, amended: the second exit of the scenario, at 90 on the remaining
\* half (2500 units), realizes -25,000, credits the account with the
\* proceeds 2500 * 90 = 225,000, leaves 1,000,000 in it and the position
\* closed with a total realized PnL of 0.
C16_SecondExitCreditsProceeds ==
    [][ScenarioSecondExit4
       => /\ trades4'["T1"].realized_pnl - trades4["T1"].realized_pnl = -25000 * 100
          /\ trades4'["T1"].realized_pnl = 0
          /\ Last(ledger4').qty = 2500 * 100
          /\ Last(ledger4').amount = 225000 * 100
          /\ wallet4' = 1000000 * 100
          /\ trades4'["T1"].status \in Closed4]_vars

\* The second exit of the scenario has just been applied.
C16_Witness ==
    /\ call4.req \in {Webhook4(TRUE, e, "T1", 90, "BUY") : e \in {"TARGET2", "STOPLOSS"}}
    /\ call4.resp = "ok"
    /\ Len(ledger4) = 4
    /\ ledger4[2].type = "ENTRY_BUY" /\ ledger4[2].price = 100
    /\ ledger4[3].type = "EXIT_T1" /\ ledger4[3].price = 110
    /\ ledger4[4].type \in {"EXIT_T2", "EXIT_SL"} /\ ledger4[4].price = 90
    /\ trades4["T1"].status \in Closed4
    /\ trades4["T1"].qty = 5000 * 100

\* C20: when the price of an ENTRY is zero or less, or the balance (and so
\* balance * fraction) is zero or less, allocate_for_entry returns (0, 0),
\* the ENTRY changes neither the wallet balance nor the ledger, and the
\* handler answers ok.
C20_NothingToAllocate ==
    [][(/\ Handled4
        /\ call4'.req.event = "ENTRY"
        /\ call4'.req.price <= 0 \/ wallet4 <= 0)
       => /\ allocate_for_entry(wallet4, call4'.req.price) = [qty |-> 0, spend |-> 0]
          /\ wallet4' = wallet4
          /\ ledger4' = ledger4
          /\ call4'.resp = "ok"]_vars

\* A priced ENTRY has been answered on a wallet that holds nothing.
C20_Witness ==
    /\ call4.req.event = "ENTRY" /\ call4.req.price > 0 /\ call4.resp = "ok"
    /\ wallet4 <= 0
    /\ Len(ledger4) = 1
    /\ trades4["T1"].exists /\ trades4["T1"].qty = 0

\* C21: when the allocation of an ENTRY is (0, 0), no position is opened:
\* the tag has no trades row in state OPEN afterwards.
C21_NoPositionWithoutAllocation ==
    [][(/\ Handled4
        /\ call4'.req.event = "ENTRY"
        /\ allocate_for_entry(wallet4, call4'.req.price) = [qty |-> 0, spend |-> 0])
       => ~(trades4'[call4'.req.tag].exists /\ trades4'[call4'.req.tag].status = "OPEN")]_vars

\* C30: every webhook of app-v4.py that passed the secret check and was
\* answered added exactly one row to events, whatever the answer, and one
\* answered "unknown tag" changed neither trades, nor the wallet, nor the
\* ledger.
C30_EveryWebhookAudited ==
    [][(call4'.req.op = "webhook" /\ call4'.req.secret)
       => /\ events4' = events4 + 1
          /\ call4'.resp \in {"ok", "unknown_tag"}
          /\ call4'.resp = "unknown_tag"
               => /\ ~trades4[call4'.req.tag].exists
                  /\ trades4' = trades4
                  /\ wallet4' = wallet4
                  /\ ledger4' = ledger4]_vars

\* An exit for a tag that has no position was answered "unknown tag" while
\* another tag's position is open: the audit rows are those of the ENTRY and
\* of the refused exit.
C30_Witness ==
    /\ call4.req.op = "webhook" /\ call4.req.secret
    /\ call4.resp = "unknown_tag"
    /\ events4 = 2
    /\ \E t \in Tags : trades4[t].exists /\ trades4[t].status = "OPEN"
    /\ wallet4 < START_BALANCE

\* ========================================================================
\* Properties of app_v7.py and app-v4.py
\* ========================================================================
\* (exit - entry) * qty for a BUY position, (entry - exit) * qty for a SELL
\* one.
DirectedPnl(side, entry, exit, qty) ==
    IF side = "BUY" THEN (exit - entry) * qty ELSE (entry - exit) * qty

\* C14: the PnL an applied exit realizes is (exit - entry) * quantity closed
\* when the position is a BUY (LONG) one and (entry - exit) * quantity
\* closed when it is a SELL (SHORT) one, in handle_exit_event of app_v7.py
\* and in realize of app-v4.py.
C14_PnlFollowsPositionSide ==
    [][/\ \A p \in Seq7 :
             (/\ Ends7(p)
              /\ proc7[p].req.op = "webhook"
              /\ proc7[p].req.event \in ExitEvents7
              /\ last7'.resp = "ok")
             => LET i == OpenEntry7(db7.trades, proc7[p].req.tag)
                    t == db7.trades[i]
                IN  /\ i # 0
                    /\ db7'.trades[i].realized_pnl =
                          DirectedPnl(t.side, t.entry_price, proc7[p].req.price, t.qty)
       /\ (/\ Handled4
           /\ call4'.req.event \in ExitEvents7
           /\ Len(ledger4') = Len(ledger4) + 1)
          => LET t == trades4[call4'.req.tag]
             IN  trades4'[call4'.req.tag].realized_pnl - t.realized_pnl =
                    DirectedPnl(t.side, t.entry, call4'.req.price, Last(ledger4').qty)]_vars

\* Every entry's balance_after is the preceding entry's plus its own amount,
\* and the last entry's balance_after is the wallet balance.
Chained(ledger, balance) ==
    /\ \A i \in 2..Len(ledger) :
          ledger[i].balance_after = ledger[i - 1].balance_after + ledger[i].amount
    /\ ledger # <<>> => Last(ledger).balance_after = balance

\* The entries of `old` are the first entries of `new`, unchanged.
Kept(old, new) ==
    /\ Len(new) >= Len(old)
    /\ \A i \in 1..Len(old) : new[i] = old[i]

\* C18: in app_v7.py and in app-v4.py every ledger entry's balance_after is
\* the preceding entry's balance_after plus its own amount, in every
\* committed state the last entry's balance_after is the wallet balance,
\* and no webhook or admin operation changes or removes an entry the ledger
\* holds.
C18_LedgerChainedAndAppendOnly ==
    /\ [](Chained(db7.ledger, Balance7(db7)) /\ Chained(ledger4, wallet4))
    /\ [][Kept(db7.ledger, db7'.ledger) /\ Kept(ledger4, ledger4')]_vars

\* app_v7.py has committed an ENTRY, then a clear-trades and a deposit.
C18_Witness ==
    /\ Len(db7.ledger) = 4
    /\ db7.ledger[2].type = "ENTRY"
    /\ {db7.ledger[3].type, db7.ledger[4].type} = {"CLEAR_TRADES", "MANUAL_DEPOSIT"}
    /\ db7.trades = <<>>
    /\ lock7 = 0

\* C19: an ENTRY that finds a balance of zero or more debits no more than
\* that balance and leaves a balance of zero or more, in app_v7.py and in
\* app-v4.py.
C19_EntryNeverOverdraws ==
    [][/\ \A p \in Seq7 :
             (/\ Ends7(p)
              /\ proc7[p].req.op = "webhook"
              /\ proc7[p].req.event = "ENTRY"
              /\ Balance7(db7) >= 0)
             => /\ Balance7(db7) - Balance7(db7') <= Balance7(db7)
                /\ Balance7(db7') >= 0
                /\ tx7.exc = "-" => -Last(db7'.ledger).amount <= Balance7(db7)
       /\ (/\ Handled4
           /\ call4'.req.event = "ENTRY"
           /\ wallet4 >= 0)
          => /\ wallet4 - wallet4' <= wallet4
             /\ wallet4' >= 0
             /\ Len(ledger4') > Len(ledger4) => -Last(ledger4').amount <= wallet4]_vars

\* app_v7.py has applied an ENTRY whose quantity was rounded up: it spent
\* more than 15% of the balance it found.
C19_Witness ==
    /\ last7.key.event = "ENTRY" /\ last7.resp = "ok"
    /\ Len(db7.ledger) >= 2
    /\ Last(db7.ledger).type = "ENTRY"
    /\ -Last(db7.ledger).amount * 20 > 3 * db7.ledger[Len(db7.ledger) - 1].balance_after
    /\ Balance7(db7) >= 0

\* The step on which a clear_trades of app_v7.py commits.
ClearTrades7 ==
    \E p \in Procs7 :
        Ends7(p) /\ lock7 = p /\ proc7[p].req.op = "clear_trades" /\ tx7.exc = "-"

\* The step of app-v4.py's clear_db.
ClearDb4 == prog = "app-v4" /\ call4'.req.op = "clear_db"

\* C23: the administrative reset (clear_trades of app_v7.py, clear_db of
\* app-v4.py) leaves no position record, puts the balance back to the seed
\* balance and appends exactly one ledger entry, of type RESET.
C23_ResetReseedsAndRecords ==
    [][/\ ClearTrades7
          => /\ db7'.trades = <<>>
             /\ db7'.wallet = <<INITIAL_DEPOSIT7>>
             /\ Len(db7'.ledger) = Len(db7.ledger) + 1
             /\ Last(db7'.ledger).type = "RESET"
       /\ ClearDb4
          => /\ \A t \in Tags : ~trades4'[t].exists
             /\ wallet4' = START_BALANCE
             /\ Len(ledger4') = Len(ledger4) + 1
             /\ Last(ledger4').type = "RESET"]_vars

\* C24: a mutating operation of app_v7.py holds _db_lock and its
\* transaction from its read of the balance to its commit: while slot p is
\* inside its transaction the committed wallet, wallet_ledger and trades
\* change only by p's own commit, and what p commits is its body applied to
\* the database as it stands at the commit.
C24_NoWriteInsideAnothersTransaction ==
    [][\A p \in Procs7 :
          proc7[p].pc = "ran"
          => /\ lock7 = p
             /\ db7' # db7 => Ends7(p)
             /\ (Ends7(p) /\ tx7.exc = "-")
                   => db7' = Body7(db7, proc7[p].req, 0).db]_vars

\* An exit is inside its transaction, having read the balance, while an
\* add_funds waits for the lock.
C24_Witness ==
    \E p, q \in Procs7 :
        /\ proc7[p].pc = "ran" /\ proc7[p].req.event = "TARGET1" /\ tx7.exc = "-"
        /\ proc7[q].pc = "called" /\ proc7[q].req.op = "add_funds"

Invalid25(pl) ==
    /\ pl.op = "webhook"
    /\ \/ ~pl.secret
       \/ /\ pl.event = "ENTRY"
          /\ pl.price = 0 \/ pl.side = NoSide \/ pl.symbol = NoSymbol \/ pl.tag = NoTag
       \/ /\ pl.event \in ExitEvents7
          /\ pl.tag = NoTag \/ pl.price = 0 \/ pl.side = NoSide

\* C25: in app_v7.py and in app.py a webhook with a wrong secret, an ENTRY
\* that lacks price, side, symbol or tag, and an exit that lacks tag, price
\* or side are answered with an error, and no step of their handling changes
\* trades, wallet, ledger or events.
C25_InvalidWebhookHasNoEffect ==
    [][/\ \A p \in Seq7 :
             (proc7[p].pc # "idle" /\ Invalid25(proc7[p].req))
             => /\ db7' = db7
                /\ proc7'[p].pc = "idle"
                     => last7'.resp = "error400" /\ last7'.key = proc7[p].req
       /\ \A p \in SeqA :
             (procA[p].pc # "idle" /\ Invalid25(procA[p].req))
             => /\ tradesA' = tradesA /\ walletA' = walletA /\ idA' = idA
                /\ procA'[p].pc = "idle"
                     => procA'[p].resp \in {"error400", "error401"}]_vars

\* app_v7.py has refused an exit without side for a tag whose position is
\* open, and the position is still open.
C25_Witness ==
    /\ last7.key.op = "webhook"
    /\ last7.key.event \in ExitEvents7
    /\ last7.key.secret /\ last7.key.side = NoSide
    /\ last7.key.price > 0 /\ last7.key.tag \in Tags
    /\ last7.resp = "error400"
    /\ OpenEntry7(db7.trades, last7.key.tag) # 0

\* C26: in app_v7.py an authenticated event that is none of ENTRY, TARGET1,
\* TARGET2, TARGET3 and STOPLOSS is answered ok, adds exactly one row to
\* events and leaves trades, wallet and wallet_ledger as they were.
C26_UnknownEventIsJournaledOnly ==
    [][\A p \in Seq7 :
          (/\ Ends7(p)
           /\ proc7[p].req.op = "webhook"
           /\ proc7[p].req.secret
           /\ proc7[p].req.event
                 \notin {"ENTRY", "TARGET1", "TARGET2", "TARGET3", "STOPLOSS"})
          => /\ db7'.events = db7.events + 1
             /\ db7'.trades = db7.trades
             /\ db7'.wallet = db7.wallet
             /\ db7'.ledger = db7.ledger
             /\ last7'.resp = "ok"]_vars

\* A PING for a tag whose position is open has been journaled.
C26_Witness ==
    /\ last7.key.op = "webhook" /\ last7.key.event = "PING" /\ last7.resp = "ok"
    /\ db7.events = 1
    /\ OpenEntry7(db7.trades, last7.key.tag) # 0

\* C27: a clear_trades of app_v7.py that commits deletes every trades row,
\* leaves the wallet balance as it was and appends exactly one wallet_ledger
\* row, of type CLEAR_TRADES, amount 0 and balance_after the unchanged
\* balance; one that fails at any statement changes nothing.
C27_ClearTradesKeepsBalance ==
    [][\A p \in Seq7 :
          (Ends7(p) /\ proc7[p].req.op = "clear_trades")
          => IF tx7.exc = "-"
             THEN /\ db7'.trades = <<>>
                  /\ db7'.wallet = db7.wallet
                  /\ db7'.ledger =
                       Append(db7.ledger,
                              LedgerRow7("CLEAR_TRADES", NoTag, "-", 0, 0, 0,
                                         Balance7(db7)))
                  /\ db7'.events = db7.events
             ELSE db7' = db7]_vars

\* The trades of an open position have been cleared: the table is empty and
\* the balance is still what the ENTRY left.
C27_Witness ==
    /\ last7.key.op = "clear_trades" /\ last7.resp = "ok"
    /\ db7.trades = <<>>
    /\ Len(db7.ledger) >= 3
    /\ db7.ledger[Len(db7.ledger) - 1].type = "ENTRY"
    /\ Last(db7.ledger).type = "CLEAR_TRADES"
    /\ Balance7(db7) < INITIAL_DEPOSIT7
    /\ Balance7(db7) = Last(db7.ledger).balance_after

\* C32: in app.py, with wallet-changing calls in flight at once, every
\* wallet row's balance is the balance of the row before it plus the row's
\* own change.
C32_WalletRowsChained ==
    \A i \in 2..Len(walletA) :
        walletA[i].balance = walletA[i - 1].balance + walletA[i].change

\* The same exit with the other value in its own side field.
OtherSide7(pl) == [pl EXCEPT !.side = IF pl.side = "BUY" THEN "SELL" ELSE "BUY"]

\* C33: in app_v7.py an exit applied to an open position leaves the wallet
\* balance and the realized PnL that the same exit with the other value in
\* its own side field would have left.
C33_ExitIndependentOfItsSide ==
    [][\A p \in Seq7 :
          (/\ Ends7(p)
           /\ proc7[p].req.op = "webhook"
           /\ proc7[p].req.event \in ExitEvents7
           /\ proc7[p].req.side \in Sides
           /\ tx7.exc = "-")
          => LET other == Body7(db7, OtherSide7(proc7[p].req), 0).db
                 trade_id == OpenEntry7(db7.trades, proc7[p].req.tag)
             IN  /\ db7'.wallet = other.wallet
                 /\ db7'.trades[trade_id].realized_pnl
                      = other.trades[trade_id].realized_pnl]_vars

\* C34: in app_v7.py every trades row of an ENTRY has a quantity above zero
\* and a spent amount above zero.
C34_EntryHasQuantityAndSpent ==
    \A i \in 1..Len(db7.trades) :
        db7.trades[i].event = "ENTRY"
        => db7.trades[i].qty > 0 /\ db7.trades[i].spent > 0

\* clear_trades has been applied: its entry is in the ledger.
Cleared7(db) == \E i \in 1..Len(db.ledger) : db.ledger[i].type = "CLEAR_TRADES"

\* The ledger rows that credit an exit of the tag.
Credits7(db, tag) ==
    {i \in 1..Len(db.ledger) :
        db.ledger[i].tag = tag /\ db.ledger[i].type \in ExitEvents7}

\* C36: while clear_trades has not been applied, a tag has at most one
\* credit entry in wallet_ledger, and an exit event of any kind for a tag
\* that has one is answered with an error and changes neither the wallet
\* balance nor the ledger.
C36_OneExitPerTag ==
    /\ [](~Cleared7(db7)
          => \A t \in Tags : Cardinality(Credits7(db7, t)) <= 1)
    /\ [][\A p \in Seq7 :
             (/\ Ends7(p)
              /\ proc7[p].req.op = "webhook"
              /\ proc7[p].req.event \in ExitEvents7
              /\ ~Cleared7(db7)
              /\ Credits7(db7, proc7[p].req.tag) # {})
             => /\ last7'.resp = "error400"
                /\ db7'.wallet = db7.wallet
                /\ db7'.ledger = db7.ledger]_vars

\* An exit of another kind has been refused for a tag whose position the
\* first exit closed, with no clear_trades in the run.
C36_Witness ==
    /\ ~Cleared7(db7)
    /\ last7.key.op = "webhook"
    /\ last7.key.event \in ExitEvents7
    /\ last7.resp = "error400"
    /\ \E i \in Credits7(db7, last7.key.tag) :
           db7.ledger[i].type # last7.key.event

\* The newest ENTRY row of the tag among the ledger rows 1..n (0: none).
RECURSIVE EntryRow7(_, _, _)
EntryRow7(ledger, tag, n) ==
    IF n = 0 THEN 0
    ELSE IF ledger[n].type = "ENTRY" /\ ledger[n].tag = tag THEN n
    ELSE EntryRow7(ledger, tag, n - 1)

\* The realized PnL of the exits in the ledger rows 1..n: each exit's credit
\* less the amount its ENTRY spent.
RECURSIVE Realized7(_, _)
Realized7(ledger, n) ==
    IF n = 0 THEN 0
    ELSE (IF ledger[n].type \in ExitEvents7
          THEN LET e == EntryRow7(ledger, ledger[n].tag, n - 1)
               IN  ledger[n].amount + (IF e = 0 THEN 0 ELSE ledger[e].amount)
          ELSE 0)
         + Realized7(ledger, n - 1)

\* The initial deposit and the funds added in the ledger rows 1..n.
RECURSIVE Deposits7(_, _)
Deposits7(ledger, n) ==
    IF n = 0 THEN 0
    ELSE (IF ledger[n].type \in {"INITIAL_DEPOSIT", "MANUAL_DEPOSIT"}
          THEN ledger[n].amount ELSE 0)
         + Deposits7(ledger, n - 1)

\* The amounts spent on the positions still OPEN among the trades rows 1..n.
RECURSIVE OpenSpent7(_, _)
OpenSpent7(trades, n) ==
    IF n = 0 THEN 0
    ELSE (IF trades[n].event = "ENTRY" /\ trades[n].status = "OPEN"
          THEN trades[n].spent ELSE 0)
         + OpenSpent7(trades, n - 1)

\* C37: in every state of app_v7.py, after clear_trades too, the wallet
\* balance plus the amounts spent on the positions still OPEN is the initial
\* deposit plus the funds added plus the realized PnL of the exits applied.
C37_CashConserved ==
    Balance7(db7) + OpenSpent7(db7.trades, Len(db7.trades))
        = Deposits7(db7.ledger, Len(db7.ledger))
          + Realized7(db7.ledger, Len(db7.ledger))

\* C38: once a tag's t1_price is recorded, a further TARGET1 for the tag
\* changes neither the wallet balance, nor the ledger, nor the position's
\* status and realized PnL.
C38_Target1AppliedOnce ==
    [][(/\ Handled4
        /\ call4'.req.event = "TARGET1"
        /\ trades4[call4'.req.tag].exists
        /\ trades4[call4'.req.tag].t1_price # 0)
       => /\ wallet4' = wallet4
          /\ ledger4' = ledger4
          /\ trades4'[call4'.req.tag].status = trades4[call4'.req.tag].status
          /\ trades4'[call4'.req.tag].realized_pnl =
                trades4[call4'.req.tag].realized_pnl]_vars

\* A TARGET1 at another price than the recorded one has been answered for a
\* position whose half the first TARGET1 closed.
C38_Witness ==
    /\ prog = "app-v4"
    /\ call4.req.event = "TARGET1" /\ call4.req.price > 0 /\ call4.resp = "ok"
    /\ trades4[call4.req.tag].status = "PARTIAL"
    /\ trades4[call4.req.tag].t1_price # 0
    /\ trades4[call4.req.tag].t1_price # call4.req.price

\* The ledger types of app-v4.py's ENTRY and of its closing exits.
EntryTypes4 == {"ENTRY_BUY", "ENTRY_SELL", "ENTRY_NA"}
ClosingTypes4 == {"EXIT_T2", "EXIT_SL"}

\* Ledger rows i and j are of one tag and one price.
SameTrade(ledger, i, j) ==
    ledger[i].tag = ledger[j].tag /\ ledger[i].price = ledger[j].price

\* The balance before the entry that ledger row i records.
BeforeEntry(ledger, i) == ledger[i].balance_after - ledger[i].amount

\* C35: a position opened and then closed at its entry price leaves the
\* balance at its value before the entry: in app_v7.py an ENTRY followed by
\* one exit, in app-v4.py an ENTRY followed by TARGET2 or STOPLOSS alone or
\* by TARGET1 and then TARGET2 or STOPLOSS.
C35_RoundTripAtEntryPrice ==
    /\ \A i \in 1..(Len(db7.ledger) - 1) :
           (/\ db7.ledger[i].type = "ENTRY"
            /\ db7.ledger[i + 1].type \in ExitEvents7
            /\ SameTrade(db7.ledger, i, i + 1))
           => db7.ledger[i + 1].balance_after = BeforeEntry(db7.ledger, i)
    /\ \A i \in 1..(Len(ledger4) - 1) :
           (/\ ledger4[i].type \in EntryTypes4
            /\ ledger4[i + 1].type \in ClosingTypes4
            /\ SameTrade(ledger4, i, i + 1))
           => ledger4[i + 1].balance_after = BeforeEntry(ledger4, i)
    /\ \A i \in 1..(Len(ledger4) - 2) :
           (/\ ledger4[i].type \in EntryTypes4
            /\ ledger4[i + 1].type = "EXIT_T1"
            /\ ledger4[i + 2].type \in ClosingTypes4
            /\ SameTrade(ledger4, i, i + 1)
            /\ SameTrade(ledger4, i, i + 2))
           => ledger4[i + 2].balance_after = BeforeEntry(ledger4, i)

\* ========================================================================
\* Properties of app-v2.py and app-old.py
\* ========================================================================
\* C31: trade_events holds at most one row per (event, symbol, tag) with a
\* non-empty tag, also when the same alert is delivered to two processes at
\* once, and a repeated alert is answered dup with the id of the existing
\* row and inserts nothing.
C31_OneRowPerTaggedAlert ==
    /\ \A i, j \in 1..Len(events2) :
          (/\ i # j
           /\ events2[i].tag # NoTag
           /\ events2[i].event = events2[j].event
           /\ events2[i].symbol = events2[j].symbol)
          => events2[i].tag # events2[j].tag
    /\ \A p \in Procs2 :
          proc2[p].resp = "dup"
          => \/ proc2[p].id = Existing2(events2, proc2[p].req, 1)
             \/ Existing2(events2, proc2[p].req, 1) = 0

\* ========================================================================
\* Properties of the retry helpers
\* ========================================================================
\* C22: exec_with_retry makes at most `retries` attempts; it returns on the
\* attempt that commits, so the batch is committed at most once and then
\* whole; a lock error is raised to the caller exactly when it strikes the
\* last permitted attempt; and every call ends, by a return or by an
\* exception.
C22_BoundedRetry ==
    /\ [](rt.helper = "exec_with_retry"
            => /\ rt.attempt < rt.retries
               /\ rt.commits <= 1
               /\ rt.applied = rt.batch * rt.commits
               /\ rt.commits = 1 => rt.pc = "returned")
    /\ [][(rt.helper = "exec_with_retry" /\ rt.pc = "attempt")
            => /\ rt'.commits # rt.commits => rt'.pc = "returned"
               /\ (rt'.pc = "raised" /\ RetryableR(rt.helper, rt'.error))
                     => rt.attempt = rt.retries - 1
               /\ (rt.attempt = rt.retries - 1 /\ rt' # rt
                      /\ rt'.pending <= rt.pending /\ rt'.commits = rt.commits)
                     => rt'.pc = "raised" /\ rt'.error \in ErrorsR]_vars
    /\ ((rt.helper = "exec_with_retry" /\ rt.pc = "attempt")
          ~> rt.pc \in {"returned", "raised"})

\* Every one of the five attempts of the default met a lock error and the
\* error has reached the caller; nothing is committed.
C22_Witness ==
    /\ rt.helper = "exec_with_retry"
    /\ rt.retries = RetriesA
    /\ rt.pc = "raised"
    /\ HasLocked(rt.error.msg) /\ rt.error.cls = "OperationalError"
    /\ rt.attempt = RetriesA - 1
    /\ Len(rt.waits) = RetriesA - 1
    /\ rt.applied = 0

\* What the statement of C29 calls a lock or busy error.
LockOrBusyR(e) ==
    /\ e.cls = "OperationalError"
    /\ e.msg \in {"database is locked", "database table is locked", "database is busy"}

\* C29: the three helpers begin another attempt only after a lock or busy
\* error and only while attempts are left; every other error, and a lock
\* error on the last attempt, reaches the caller from the attempt on which it
\* occurred, so a helper returns only when an attempt ran to its end; and in
\* exec_with_retry and migrate_db_v7.with_retry the wait that precedes
\* attempt k+1, attempts numbered from 0 as the loops number them, is the
\* base delay times 2^k.
C29_RetryOnlyOnLockWithBackoff ==
    /\ [](/\ rt.pc = "returned" => rt.commits = 1
          /\ rt.pc = "raised" => rt.commits = 0 /\ rt.error \in ErrorsR
          /\ Len(rt.waits) = rt.attempt
          /\ rt.helper \in {"exec_with_retry", "migrate_db_v7.with_retry"}
                => \A k \in 0..(rt.attempt - 1) :
                       rt.waits[k + 1] = BaseDelayR(rt.helper) * Pow2(k))
    /\ [][rt.pc = "attempt"
            => /\ rt'.attempt # rt.attempt
                    => /\ rt'.attempt = rt.attempt + 1
                       /\ rt'.pc = "attempt"
                       /\ LockOrBusyR(rt'.error)
                       /\ rt.attempt < rt.retries - 1
               /\ rt'.pc = "raised"
                    => /\ rt'.attempt = rt.attempt
                       /\ LockOrBusyR(rt'.error)
                            => \/ rt.attempt = rt.retries - 1
                               \/ ~RetryableR(rt.helper, rt'.error)]_vars

\* migrate_db_v7.with_retry met a lock error on each of its five attempts:
\* it slept 0.2, 0.4, 0.8 and 1.6 seconds and raised the fifth error.
C29_Witness ==
    /\ rt.helper = "migrate_db_v7.with_retry"
    /\ rt.retries = RetriesA
    /\ rt.waits = <<200, 400, 800, 1600>>
    /\ rt.pc = "raised"
    /\ rt.error = [cls |-> "OperationalError", msg |-> "database is locked"]

====
